---- MODULE Spec2Model ----
(***************************************************************************)
(* Executor context and dispatcher of the per-site execution engine        *)
(* (src/ee/common/executorcontext.cpp): executeExecutors driving an        *)
(* executor list, and the replicated-table INSERT coordination between the *)
(* sibling sites of one host.                                              *)
(***************************************************************************)
EXTENDS Integers, Sequences, FiniteSets, TLC

\* ------------------------------------------------------------------ bounds
NumSites == 2
MaxLen == 2
MaxCalls == 1
MaxSeq == 1
MaxSp == 1
MaxRotations == 2
MaxSubqueries == 2
MaxRows == 1
MaxCleanups == 2
MaxContexts == 3
MaxInput == 4
MaxKey == 2
MaxNullInput == 3
MaxVisible == 2
MaxPending == 1
MaxTally == 1
MaxProjInput == 2

Sites == 1..NumSites

\* A null pointer (mpExecutor, a thread's unbound context key).
NULL == 0

\* What executeExecutors tells apart in a plan node: an INSERT whose target is a
\* replicated persistent table, and every other node (a node that is not an
\* INSERT, or an INSERT into another kind of table: the two branches that run
\* the same executor->execute statement).
PlanNodeKinds == {"OTHER", "REPL_INSERT"}

ExecutorLists == UNION {[1..n -> PlanNodeKinds] : n \in 1..MaxLen}

ExecuteOutcomes == {"ok", "false", "throw"}

VARIABLES
    SITES_PER_HOST,                 \* int32_t SITES_PER_HOST
    globalTxnStartCountdownLatch,   \* std::atomic<int32_t>
    globalTxnEndCountdownLatch,     \* int32_t, guarded by sharedEngineMutex
    sharedEngineCondition,          \* the sites blocked in pthread_cond_wait
    mpExecutor,                     \* AbstractExecutor*: NULL or a position of the MP site's list
    mpEngineLocals,                 \* EngineLocals: [context]
    enginesByPartitionId,           \* partition id -> EngineLocals
    executorList,                   \* the executor list every site runs (one plan fragment)
    threadContext,                  \* per thread: the ExecutorContext stored under static_key
    pc,                             \* per site: where its thread stands
    pos,                            \* per site: BOOST_FOREACH position, 1-based
    ctr,                            \* per site: int ctr
    needsReleaseLock,               \* per site: bool needsReleaseLock
    calls,                          \* per site: executeExecutors calls made so far
    outputTempTable,                \* per site, per executor: temp output table holds rows
    inlinePool,                     \* per site, per executor: inline child's pool holds memory
    returned,                       \* per site: what the last call handed to its caller
    executed,                       \* per site: the execute() calls of the current call, in order
    replicatedRows,                 \* rows the replicated inserts have put into the table
    entered,                        \* per site: latch decrements made
    passed,                         \* per site: replicated inserts it has gone past
    drove,                          \* per site: decrements that yielded zero
    signalled,                      \* per site: signalLastSiteFinished calls made
    execStarted,                    \* per site: execute() calls started on mpExecutor
    execFinished                    \* execute() calls on mpExecutor that have ended

\* DR stream rotation of one ExecutorContext (setDrStream, setDrReplicatedStream)
VARIABLES
    drStreams,                      \* the AbstractDRTupleStream objects made so far, by pointer
    m_drStream,                     \* AbstractDRTupleStream *m_drStream
    m_drReplicatedStream,           \* AbstractDRTupleStream *m_drReplicatedStream
    m_lastCommittedSpHandle,        \* int64_t m_lastCommittedSpHandle
    drPc,                           \* where the context's thread stands in a rotation
    drArg,                          \* the rotation's argument (the new stream)
    oldSeqNum,                      \* int64_t oldSeqNum of the rotation under way
    drBefore,                       \* the streams' numbers when the rotation under way began
    drRotations                     \* per completed setDrStream: [seq, precondition]

\* The executors of one context and their cleanup (cleanupAllExecutors)
VARIABLES
    m_executorsMap,                 \* subquery id -> its executors' temp output tables (rows held)
    m_subqueryContextMap,           \* the subquery ids with a cached SubqueryContext
    clCalls,                        \* cleanupAllExecutors calls since the last execution
    clDirtyBefore                   \* the first of those calls found rows and cached contexts

\* The ExecutorContext objects and the threads' binding to them
VARIABLES
    liveContexts                    \* per context: the thread that constructed it, NULL when not alive

\* One run of the swap tables executor (SwapTablesExecutor::p_execute)
VARIABLES
    targetTable1,                   \* what getTargetTable1() holds: its data and tuple counts
    targetTable2,                   \* what getTargetTable2() holds
    modified_tuples,                \* int64_t modified_tuples
    swOutput,                       \* m_tmpOutputTable: the DML count rows inserted
    m_tuplesModified,               \* the engine's tally of modified tuples
    swPc,                           \* where p_execute stands
    swSwaps,                        \* the swapTable calls made
    swTallyBefore                   \* the engine's tally when p_execute was entered

\* One run of the projection executor (ProjectionExecutor::p_execute)
VARIABLES
    pjInput,                        \* the input table's rows
    pjParams,                       \* const NValueArray &params
    expression_array,               \* the output column expressions
    all_tuple_array,                \* source columns when all are column references, else null
    all_param_array,                \* parameter indices when all are parameters, else null
    temp_tuple,                     \* m_tmpOutputTable->tempTuple()
    pjIterator,                     \* rows the deleting iterator has consumed
    pjOutput,                       \* m_tmpOutputTable: the rows inserted so far
    pjPc                            \* where the executor stands

\* One run of the window function executor (WindowFunctionExecutor::p_execute)
VARIABLES
    wfInput,                        \* the input table: rows <<partition column, order column>>
    m_partitionByExpressions,       \* the input columns of the PARTITION BY key
    m_orderByExpressions,           \* the input columns of the ORDER BY key
    m_aggTypes,                     \* the aggregate types the plan node asks for
    m_aggregateInputExpressions,    \* per aggregate: the input columns of its arguments
    wfPc,                           \* where p_execute stands
    window,                         \* TableWindow: m_middleEdge, m_leadingEdge, m_groupSize
    etype,                          \* EdgeType etype of the main loop
    nextEtype,                      \* EdgeType nextEtype of the main loop
    wfStorage,                      \* the pool's tuple storage areas, by address
    bufferedInputTuple,             \* getBufferedInputTuple(): address of its data
    inProgressPartitionByKey,       \* getInProgressPartitionByKeyTuple(): address of its data
    lastPartitionByKey,             \* getLastPartitionByKeyTuple(): address of its data
    inProgressOrderByKey,           \* getInProgressOrderByKeyTuple(): address of its data
    lastOrderByKey,                 \* getLastOrderByKeyTuple(): address of its data
    aggs,                           \* m_aggregateRow->getAggregates()
    passThroughTuple,               \* m_aggregateRow->getPassThroughTuple()
    idx,                            \* int idx of the emitting loop
    wfOutput,                       \* m_tmpOutputTable: the rows inserted so far
    groupSizes,                     \* m_groupSize as each findNextEdge call left it
    wfCalls                         \* the calls of the aggregate protocol made so far

shared == <<SITES_PER_HOST, globalTxnStartCountdownLatch, globalTxnEndCountdownLatch,
            sharedEngineCondition, mpExecutor, mpEngineLocals, enginesByPartitionId>>
local == <<threadContext, pc, pos, ctr, needsReleaseLock, calls, returned, executed>>
tables == <<outputTempTable, inlinePool, replicatedRows>>
history == <<entered, passed, drove, signalled, execStarted, execFinished>>
execVars == <<shared, executorList, local, tables, history>>
drVars == <<drStreams, m_drStream, m_drReplicatedStream, m_lastCommittedSpHandle,
            drPc, drArg, oldSeqNum, drBefore, drRotations>>

clVars == <<m_executorsMap, m_subqueryContextMap, clCalls, clDirtyBefore>>

\* What executeExecutors and the replicated-insert coordination leave alone.
wfPlan == <<m_aggTypes, m_aggregateInputExpressions>>
wfVars == <<wfInput, m_partitionByExpressions, m_orderByExpressions, wfPlan, wfPc, window,
            etype, nextEtype, wfStorage, bufferedInputTuple, inProgressPartitionByKey,
            lastPartitionByKey, inProgressOrderByKey, lastOrderByKey, aggs,
            passThroughTuple, idx, wfOutput, groupSizes, wfCalls>>

swVars == <<targetTable1, targetTable2, modified_tuples, swOutput, m_tuplesModified,
            swPc, swSwaps, swTallyBefore>>
pjVars == <<pjInput, pjParams, expression_array, all_tuple_array, all_param_array,
            temp_tuple, pjIterator, pjOutput, pjPc>>

apart == <<drVars, clVars, liveContexts, wfVars, swVars, pjVars>>

vars == <<execVars, apart>>

ttl == Len(executorList)

Started == SITES_PER_HOST > 0

\* ------------------------------------------------------------------ Init
\* A stream as the host hands it over: nothing committed, nothing flushed.
FreshStream == [committedSequenceNumber |-> 0, openSpHandle |-> 0, flushedTo |-> -1]

\* A table iterator: the table it scans and the number of rows it has passed.
TableIterator(tbl) == [table |-> tbl, location |-> 0]

\* struct TableWindow, constructed over table tbl.
TableWindow(tbl) ==
    [m_middleEdge |-> TableIterator(tbl), m_leadingEdge |-> TableIterator(tbl),
     m_groupSize |-> 0]

\* The window function executor between runs.
WfUnused ==
    /\ wfInput = <<>>
    /\ m_partitionByExpressions = <<>>
    /\ m_orderByExpressions = <<>>
    /\ m_aggTypes = <<>>
    /\ m_aggregateInputExpressions = <<>>
    /\ wfPc = "init"
    /\ window = TableWindow("none")
    /\ etype = "InvalidEdgeType"
    /\ nextEtype = "InvalidEdgeType"
    /\ wfStorage = <<>>
    /\ bufferedInputTuple = NULL
    /\ inProgressPartitionByKey = NULL
    /\ lastPartitionByKey = NULL
    /\ inProgressOrderByKey = NULL
    /\ lastOrderByKey = NULL
    /\ aggs = <<>>
    /\ passThroughTuple = <<>>
    /\ idx = 0
    /\ wfOutput = <<>>
    /\ groupSizes = <<>>
    /\ wfCalls = <<>>

\* A persistent table as the swap tables executor sees it: whose data it holds
\* and how many of its tuples are visible and how many only await deletion.
PersistentTable(data, visible, pending) ==
    [data |-> data, visibleTupleCount |-> visible, pendingDeleteCount |-> pending]

\* The swap tables executor between runs.
SwUnused ==
    /\ targetTable1 = PersistentTable(1, 0, 0)
    /\ targetTable2 = PersistentTable(2, 0, 0)
    /\ modified_tuples = 0
    /\ swOutput = <<>>
    /\ m_tuplesModified = 0
    /\ swPc = "init"
    /\ swSwaps = 0
    /\ swTallyBefore = 0

\* A null array (all_tuple_array, all_param_array); a plan has at least one
\* output column, so no array of a plan is empty.
NullArray == <<>>

\* The projection executor between runs.
PjUnused ==
    /\ pjInput = <<>>
    /\ pjParams = <<>>
    /\ expression_array = <<>>
    /\ all_tuple_array = NullArray
    /\ all_param_array = NullArray
    /\ temp_tuple = <<>>
    /\ pjIterator = 0
    /\ pjOutput = <<>>
    /\ pjPc = "unused"

\* The contexts that may be constructed.
Contexts == 1..MaxContexts

\* The contexts' lifetimes while they are not looked at.
TlUnused == liveContexts = [c \in Contexts |-> NULL]

\* The context's executors map while its cleanup is not looked at.
ClUnused ==
    /\ m_executorsMap = <<>>
    /\ m_subqueryContextMap = {}
    /\ clCalls = 0
    /\ clDirtyBefore = FALSE

\* The context's DR streams while no rotation is looked at.
DrUnused ==
    /\ drStreams = <<FreshStream>>
    /\ m_drStream = 1
    /\ m_drReplicatedStream = NULL
    /\ m_lastCommittedSpHandle = 0
    /\ drPc = "idle"
    /\ drArg = NULL
    /\ oldSeqNum = 0
    /\ drBefore = [old |-> NULL, seq |-> 0, newSeq |-> 0, prec |-> TRUE]
    /\ drRotations = <<>>

\* Init with the latch's initialiser set to the number of sites.
Init_LatchPrearmed ==
    /\ SITES_PER_HOST = -1
    /\ globalTxnStartCountdownLatch = NumSites
    /\ globalTxnEndCountdownLatch = 0
    /\ sharedEngineCondition = {}
    /\ mpExecutor = NULL
    /\ mpEngineLocals = [context |-> NULL]
    /\ enginesByPartitionId = [p \in Sites |-> [context |-> NULL]]
    /\ executorList \in ExecutorLists
    /\ threadContext = [s \in Sites |-> NULL]
    /\ pc = [s \in Sites |-> "idle"]
    /\ pos = [s \in Sites |-> 1]
    /\ ctr = [s \in Sites |-> 0]
    /\ needsReleaseLock = [s \in Sites |-> FALSE]
    /\ calls = [s \in Sites |-> 0]
    /\ outputTempTable = [s \in Sites |-> [i \in 1..ttl |-> FALSE]]
    /\ inlinePool = [s \in Sites |-> [i \in 1..ttl |-> FALSE]]
    /\ returned = [s \in Sites |-> <<"none">>]
    /\ executed = [s \in Sites |-> <<>>]
    /\ replicatedRows = 0
    /\ entered = [s \in Sites |-> 0]
    /\ passed = [s \in Sites |-> 0]
    /\ drove = [s \in Sites |-> 0]
    /\ signalled = [s \in Sites |-> 0]
    /\ execStarted = [s \in Sites |-> 0]
    /\ execFinished = 0
    /\ DrUnused
    /\ ClUnused
    /\ TlUnused
    /\ WfUnused
    /\ SwUnused
    /\ PjUnused

\* The statics as their initialisers leave them; no ExecutorContext exists yet.
Init ==
    /\ SITES_PER_HOST = -1
    /\ globalTxnStartCountdownLatch = 0
    /\ globalTxnEndCountdownLatch = 0
    /\ sharedEngineCondition = {}
    /\ mpExecutor = NULL
    /\ mpEngineLocals = [context |-> NULL]
    /\ enginesByPartitionId = [p \in Sites |-> [context |-> NULL]]
    /\ executorList \in ExecutorLists
    /\ threadContext = [s \in Sites |-> NULL]
    /\ pc = [s \in Sites |-> "idle"]
    /\ pos = [s \in Sites |-> 1]
    /\ ctr = [s \in Sites |-> 0]
    /\ needsReleaseLock = [s \in Sites |-> FALSE]
    /\ calls = [s \in Sites |-> 0]
    /\ outputTempTable = [s \in Sites |-> [i \in 1..ttl |-> FALSE]]
    /\ inlinePool = [s \in Sites |-> [i \in 1..ttl |-> FALSE]]
    /\ returned = [s \in Sites |-> <<"none">>]
    /\ executed = [s \in Sites |-> <<>>]
    /\ replicatedRows = 0
    /\ entered = [s \in Sites |-> 0]
    /\ passed = [s \in Sites |-> 0]
    /\ drove = [s \in Sites |-> 0]
    /\ signalled = [s \in Sites |-> 0]
    /\ execStarted = [s \in Sites |-> 0]
    /\ execFinished = 0
    /\ DrUnused
    /\ ClUnused
    /\ TlUnused
    /\ WfUnused
    /\ SwUnused
    /\ PjUnused

\* Host startup: every site constructs its ExecutorContext (the constructor
\* binds it to the site's thread), publishes its EngineLocals, the lowest site
\* becomes the multi-partition locals, and the latch is armed.
HostStartup ==
    /\ ~Started
    /\ SITES_PER_HOST' = NumSites
    /\ globalTxnStartCountdownLatch' = NumSites
    /\ mpEngineLocals' = [context |-> 1]
    /\ enginesByPartitionId' = [p \in Sites |-> [context |-> p]]
    /\ threadContext' = [s \in Sites |-> s]
    /\ UNCHANGED <<globalTxnEndCountdownLatch, sharedEngineCondition, mpExecutor,
                   executorList, apart, pc, pos, ctr, needsReleaseLock, calls, returned,
                   executed, tables, history>>

\* ----------------------------------------------------- VoltDBEngine callbacks
\* countDownGlobalTxnStartCount(): the atomic decrement-and-test of the latch.
\* The value the latch holds after the caller's decrement.
countDownGlobalTxnStartCount == globalTxnStartCountdownLatch - 1

\* True iff the caller's decrement yielded zero: the caller is the driver.
IsDriver(latchAfter) == latchAfter = 0

\* waitForLastSiteFinished(): under sharedEngineMutex, count this waiter in and
\* block on sharedEngineCondition.
waitForLastSiteFinished(s) ==
    /\ globalTxnEndCountdownLatch' = globalTxnEndCountdownLatch + 1
    /\ sharedEngineCondition' = sharedEngineCondition \cup {s}

\* signalLastSiteFinished(), first half: under sharedEngineMutex, count the
\* driver in.
signalLastSiteFinishedEnter ==
    /\ globalTxnEndCountdownLatch' = globalTxnEndCountdownLatch + 1
    /\ UNCHANGED sharedEngineCondition

\* signalLastSiteFinished(), second half: once every other site is waiting,
\* clear the count and broadcast on sharedEngineCondition.
signalLastSiteFinishedBroadcast ==
    /\ globalTxnEndCountdownLatch = SITES_PER_HOST
    /\ globalTxnEndCountdownLatch' = 0
    /\ sharedEngineCondition' = {}

\* --------------------------------------------------------- executeExecutors
\* ExecutorContext::assignThreadLocals(mapping): the thread's context key
\* becomes mapping.context.
assignThreadLocals(s, mapping) ==
    threadContext' = [threadContext EXCEPT ![s] = mapping.context]

\* EngineLocals* ourEngineLocals = &enginesByPartitionId[m_partitionId]
ourEngineLocals(s) == enginesByPartitionId[s]

\* CatchEntry with the needsReleaseLock branch of the catch block missing.
CatchEntry_NoRelease(s) == IF needsReleaseLock[s] THEN "cleanup" ELSE "cleanup"

\* The catch block releasing the driver lock whatever needsReleaseLock holds.
CatchEntry_AlwaysRelease(s) == IF needsReleaseLock[s] THEN "catchReset" ELSE "catchReset"

\* What the catch block starts with: the driver lock release when
\* needsReleaseLock is set, the cleanup otherwise.
CatchEntry(s) == IF needsReleaseLock[s] THEN "catchReset" ELSE "cleanup"

\* executeExecutors(subqueryId) / executeExecutors(list, subqueryId), entry:
\* ttl, ctr = 0, ourEngineLocals, needsReleaseLock = false, start of the loop.
Call(s) ==
    /\ Started
    /\ pc[s] = "idle"
    /\ calls[s] < MaxCalls
    /\ calls' = [calls EXCEPT ![s] = @ + 1]
    /\ pc' = [pc EXCEPT ![s] = "foreach"]
    /\ pos' = [pos EXCEPT ![s] = 1]
    /\ ctr' = [ctr EXCEPT ![s] = 0]
    /\ needsReleaseLock' = [needsReleaseLock EXCEPT ![s] = FALSE]
    /\ returned' = [returned EXCEPT ![s] = <<"none">>]
    /\ executed' = [executed EXCEPT ![s] = <<>>]
    /\ UNCHANGED <<shared, executorList, apart, threadContext, tables, history>>

\* executor->execute(*m_staticParams) on the site's own executor at its loop
\* position, and the throw when it returns false. A successful executor leaves
\* rows in its temp output table and has cleaned its pools; a failing one may
\* leave both behind.
ExecuteOwn(s, outcome) ==
    /\ executed' = [executed EXCEPT ![s] = Append(@, <<s, pos[s], s>>)]
    /\ outputTempTable' = [outputTempTable EXCEPT ![s][pos[s]] = TRUE]
    /\ inlinePool' = [inlinePool EXCEPT ![s][pos[s]] = (outcome # "ok")]
    /\ IF outcome = "ok"
         THEN /\ ctr' = [ctr EXCEPT ![s] = @ + 1]
              /\ pos' = [pos EXCEPT ![s] = @ + 1]
              /\ pc' = pc
         ELSE /\ pc' = [pc EXCEPT ![s] = CatchEntry(s)]
              /\ UNCHANGED <<ctr, pos>>
    /\ UNCHANGED <<shared, executorList, apart, threadContext, needsReleaseLock, calls,
                   returned, replicatedRows, history>>

\* The loop body for a node that is not an INSERT into a replicated
\* persistent table.
ExecuteOther(s) ==
    /\ pc[s] = "foreach"
    /\ pos[s] <= ttl
    /\ executorList[pos[s]] = "OTHER"
    /\ \E outcome \in ExecuteOutcomes : ExecuteOwn(s, outcome)

\* Publish with the assignment of mpExecutor left out.
Publish_Skipped(s) ==
    /\ pc[s] = "foreach"
    /\ pos[s] <= ttl
    /\ executorList[pos[s]] = "REPL_INSERT"
    /\ mpExecutor' = mpExecutor
    /\ pc' = [pc EXCEPT ![s] = "countdown"]
    /\ UNCHANGED <<SITES_PER_HOST, globalTxnStartCountdownLatch,
                   globalTxnEndCountdownLatch, sharedEngineCondition, mpEngineLocals,
                   enginesByPartitionId, executorList, apart, threadContext, pos, ctr,
                   needsReleaseLock, calls, returned, executed, tables, history>>

\* Replicated INSERT: the site whose context is mpEngineLocals.context
\* publishes its executor in mpExecutor.
Publish(s) ==
    /\ pc[s] = "foreach"
    /\ pos[s] <= ttl
    /\ executorList[pos[s]] = "REPL_INSERT"
    /\ mpExecutor' = IF mpEngineLocals.context = s THEN pos[s] ELSE mpExecutor
    /\ pc' = [pc EXCEPT ![s] = "countdown"]
    /\ UNCHANGED <<SITES_PER_HOST, globalTxnStartCountdownLatch,
                   globalTxnEndCountdownLatch, sharedEngineCondition, mpEngineLocals,
                   enginesByPartitionId, executorList, apart, threadContext, pos, ctr,
                   needsReleaseLock, calls, returned, executed, tables, history>>

\* CountDown with the test of the decrement dropped: every site takes the
\* driver's branch.
CountDown_EverySiteDrives(s) ==
    /\ pc[s] = "countdown"
    /\ globalTxnStartCountdownLatch' = countDownGlobalTxnStartCount
    /\ entered' = [entered EXCEPT ![s] = @ + 1]
    /\ assignThreadLocals(s, mpEngineLocals)
    /\ needsReleaseLock' = [needsReleaseLock EXCEPT ![s] = TRUE]
    /\ drove' = [drove EXCEPT ![s] = IF IsDriver(countDownGlobalTxnStartCount)
                                      THEN @ + 1 ELSE @]
    /\ pc' = [pc EXCEPT ![s] = "execute"]
    /\ UNCHANGED <<SITES_PER_HOST, globalTxnEndCountdownLatch, sharedEngineCondition,
                   mpExecutor, mpEngineLocals, enginesByPartitionId, executorList, apart,
                   pos, ctr, calls, returned, executed, tables, passed, signalled,
                   execStarted, execFinished>>

\* if (countDownGlobalTxnStartCount()) { assignThreadLocals(mpEngineLocals);
\* needsReleaseLock = true; ... } else { waitForLastSiteFinished(); }
CountDown(s) ==
    /\ pc[s] = "countdown"
    /\ globalTxnStartCountdownLatch' = countDownGlobalTxnStartCount
    /\ entered' = [entered EXCEPT ![s] = @ + 1]
    /\ IF IsDriver(countDownGlobalTxnStartCount)
         THEN /\ assignThreadLocals(s, mpEngineLocals)
              /\ needsReleaseLock' = [needsReleaseLock EXCEPT ![s] = TRUE]
              /\ drove' = [drove EXCEPT ![s] = @ + 1]
              /\ pc' = [pc EXCEPT ![s] = "execute"]
         ELSE /\ pc' = [pc EXCEPT ![s] = "wait"]
              /\ UNCHANGED <<threadContext, needsReleaseLock, drove>>
    /\ UNCHANGED <<SITES_PER_HOST, globalTxnEndCountdownLatch, sharedEngineCondition,
                   mpExecutor, mpEngineLocals, enginesByPartitionId, executorList, apart,
                   pos, ctr, calls, returned, executed, tables, passed, signalled,
                   execStarted, execFinished>>

\* The driver enters mpExecutor->execute(*m_staticParams). Calling through a
\* null mpExecutor ends the process.
DriverExecuteBegin(s) ==
    /\ pc[s] = "execute"
    /\ pc' = [pc EXCEPT ![s] = IF mpExecutor = NULL THEN "crashed" ELSE "executing"]
    /\ execStarted' = [execStarted EXCEPT ![s] = IF mpExecutor = NULL THEN @ ELSE @ + 1]
    /\ UNCHANGED <<shared, executorList, apart, threadContext, pos, ctr, needsReleaseLock,
                   calls, returned, executed, tables, entered, passed, drove,
                   signalled, execFinished>>

\* mpExecutor->execute(*m_staticParams) ends: the replicated table has the row
\* when it succeeded; a false return is thrown as SerializableEEException.
DriverExecuteEnd(s) ==
    /\ pc[s] = "executing"
    /\ \E outcome \in ExecuteOutcomes :
         /\ executed' = [executed EXCEPT
                           ![s] = Append(@, <<mpEngineLocals.context, mpExecutor, s>>)]
         /\ outputTempTable' =
              [outputTempTable EXCEPT ![mpEngineLocals.context][mpExecutor] = TRUE]
         /\ inlinePool' =
              [inlinePool EXCEPT ![mpEngineLocals.context][mpExecutor] = (outcome # "ok")]
         /\ replicatedRows' = IF outcome = "ok" THEN replicatedRows + 1 ELSE replicatedRows
         /\ pc' = [pc EXCEPT ![s] = IF outcome = "ok" THEN "clearMp" ELSE CatchEntry(s)]
    /\ execFinished' = execFinished + 1
    /\ UNCHANGED <<shared, executorList, apart, threadContext, pos, ctr, needsReleaseLock,
                   calls, returned, entered, passed, drove, signalled, execStarted>>

\* DriverClearMpExecutor leaving needsReleaseLock set.
DriverClearMpExecutor_KeepsReleaseLock(s) ==
    /\ pc[s] = "clearMp"
    /\ ctr' = [ctr EXCEPT ![s] = @ + 1]
    /\ mpExecutor' = NULL
    /\ needsReleaseLock' = needsReleaseLock
    /\ pc' = [pc EXCEPT ![s] = "resetLatch"]
    /\ UNCHANGED <<SITES_PER_HOST, globalTxnStartCountdownLatch,
                   globalTxnEndCountdownLatch, sharedEngineCondition, mpEngineLocals,
                   enginesByPartitionId, executorList, apart, threadContext, pos, calls,
                   returned, executed, tables, history>>

\* ++ctr; mpExecutor = NULL; needsReleaseLock = false;
DriverClearMpExecutor(s) ==
    /\ pc[s] = "clearMp"
    /\ ctr' = [ctr EXCEPT ![s] = @ + 1]
    /\ mpExecutor' = NULL
    /\ needsReleaseLock' = [needsReleaseLock EXCEPT ![s] = FALSE]
    /\ pc' = [pc EXCEPT ![s] = "resetLatch"]
    /\ UNCHANGED <<SITES_PER_HOST, globalTxnStartCountdownLatch,
                   globalTxnEndCountdownLatch, sharedEngineCondition, mpEngineLocals,
                   enginesByPartitionId, executorList, apart, threadContext, pos, calls,
                   returned, executed, tables, history>>

\* DriverResetLatch resetting the latch to one less than SITES_PER_HOST.
DriverResetLatch_OffByOne(s) ==
    /\ pc[s] = "resetLatch"
    /\ globalTxnStartCountdownLatch' = SITES_PER_HOST - 1
    /\ pc' = [pc EXCEPT ![s] = "rebind"]
    /\ UNCHANGED <<SITES_PER_HOST, globalTxnEndCountdownLatch, sharedEngineCondition,
                   mpExecutor, mpEngineLocals, enginesByPartitionId, executorList, apart,
                   threadContext, pos, ctr, needsReleaseLock, calls, returned,
                   executed, tables, history>>

\* globalTxnStartCountdownLatch = SITES_PER_HOST;  (success path)
DriverResetLatch(s) ==
    /\ pc[s] = "resetLatch"
    /\ globalTxnStartCountdownLatch' = SITES_PER_HOST
    /\ pc' = [pc EXCEPT ![s] = "rebind"]
    /\ UNCHANGED <<SITES_PER_HOST, globalTxnEndCountdownLatch, sharedEngineCondition,
                   mpExecutor, mpEngineLocals, enginesByPartitionId, executorList, apart,
                   threadContext, pos, ctr, needsReleaseLock, calls, returned,
                   executed, tables, history>>

\* ExecutorContext::assignThreadLocals(*ourEngineLocals);  (success path)
DriverRebind(s) ==
    /\ pc[s] = "rebind"
    /\ assignThreadLocals(s, ourEngineLocals(s))
    /\ pc' = [pc EXCEPT ![s] = "signal"]
    /\ UNCHANGED <<shared, executorList, apart, pos, ctr, needsReleaseLock, calls, returned,
                   executed, tables, history>>

\* VoltDBEngine::signalLastSiteFinished();  (success path, the call)
DriverSignal(s) ==
    /\ pc[s] = "signal"
    /\ signalLastSiteFinishedEnter
    /\ signalled' = [signalled EXCEPT ![s] = @ + 1]
    /\ pc' = [pc EXCEPT ![s] = "signalSpin"]
    /\ UNCHANGED <<SITES_PER_HOST, globalTxnStartCountdownLatch, mpExecutor,
                   mpEngineLocals, enginesByPartitionId, executorList, apart, threadContext,
                   pos, ctr, needsReleaseLock, calls, returned, executed, tables,
                   entered, passed, drove, execStarted, execFinished>>

\* signalLastSiteFinished() returns on the success path; the loop goes on to
\* the next executor.
DriverSignalDone(s) ==
    /\ pc[s] = "signalSpin"
    /\ signalLastSiteFinishedBroadcast
    /\ passed' = [passed EXCEPT ![s] = @ + 1]
    /\ pos' = [pos EXCEPT ![s] = @ + 1]
    /\ pc' = [pc EXCEPT ![s] = "foreach"]
    /\ UNCHANGED <<SITES_PER_HOST, globalTxnStartCountdownLatch, mpExecutor,
                   mpEngineLocals, enginesByPartitionId, executorList, apart, threadContext,
                   ctr, needsReleaseLock, calls, returned, executed, tables,
                   entered, drove, signalled, execStarted, execFinished>>

\* WaitEnter without the call of waitForLastSiteFinished: the waiter goes
\* straight on to its next executor.
WaitEnter_NoWait(s) ==
    /\ pc[s] = "wait"
    /\ passed' = [passed EXCEPT ![s] = @ + 1]
    /\ pos' = [pos EXCEPT ![s] = @ + 1]
    /\ pc' = [pc EXCEPT ![s] = "foreach"]
    /\ UNCHANGED <<shared, executorList, apart, threadContext, ctr, needsReleaseLock, calls,
                   returned, executed, tables, entered, drove, signalled,
                   execStarted, execFinished>>

\* } else { VoltDBEngine::waitForLastSiteFinished(); }  (the call blocks)
WaitEnter(s) ==
    /\ pc[s] = "wait"
    /\ waitForLastSiteFinished(s)
    /\ pc' = [pc EXCEPT ![s] = "waiting"]
    /\ UNCHANGED <<SITES_PER_HOST, globalTxnStartCountdownLatch, mpExecutor,
                   mpEngineLocals, enginesByPartitionId, executorList, apart, threadContext,
                   pos, ctr, needsReleaseLock, calls, returned, executed, tables,
                   history>>

\* WaitReturn in which the waiter, once signalled, falls through to execute
\* its own INSERT executor.
WaitReturn_ExecutesInsert(s) ==
    /\ pc[s] = "waiting"
    /\ s \notin sharedEngineCondition
    /\ passed' = [passed EXCEPT ![s] = @ + 1]
    /\ executed' = [executed EXCEPT ![s] = Append(@, <<s, pos[s], s>>)]
    /\ outputTempTable' = [outputTempTable EXCEPT ![s][pos[s]] = TRUE]
    /\ ctr' = [ctr EXCEPT ![s] = @ + 1]
    /\ pos' = [pos EXCEPT ![s] = @ + 1]
    /\ pc' = [pc EXCEPT ![s] = "foreach"]
    /\ UNCHANGED <<shared, executorList, apart, threadContext, needsReleaseLock, calls,
                   returned, inlinePool, replicatedRows, entered, drove, signalled,
                   execStarted, execFinished>>

\* waitForLastSiteFinished() returns after the broadcast; the waiter goes on to
\* the next executor without having executed this one (no ++ctr either).
WaitReturn(s) ==
    /\ pc[s] = "waiting"
    /\ s \notin sharedEngineCondition
    /\ passed' = [passed EXCEPT ![s] = @ + 1]
    /\ pos' = [pos EXCEPT ![s] = @ + 1]
    /\ pc' = [pc EXCEPT ![s] = "foreach"]
    /\ UNCHANGED <<shared, executorList, apart, threadContext, ctr, needsReleaseLock, calls,
                   returned, executed, tables, entered, drove, signalled,
                   execStarted, execFinished>>

\* CatchResetLatch with the reset of the latch left out of the catch block.
CatchResetLatch_Skipped(s) ==
    /\ pc[s] = "catchReset"
    /\ globalTxnStartCountdownLatch' = globalTxnStartCountdownLatch
    /\ pc' = [pc EXCEPT ![s] = "catchRebind"]
    /\ UNCHANGED <<SITES_PER_HOST, globalTxnEndCountdownLatch, sharedEngineCondition,
                   mpExecutor, mpEngineLocals, enginesByPartitionId, executorList, apart,
                   threadContext, pos, ctr, needsReleaseLock, calls, returned,
                   executed, tables, history>>

\* catch: if (needsReleaseLock) { globalTxnStartCountdownLatch = SITES_PER_HOST;
CatchResetLatch(s) ==
    /\ pc[s] = "catchReset"
    /\ globalTxnStartCountdownLatch' = SITES_PER_HOST
    /\ pc' = [pc EXCEPT ![s] = "catchRebind"]
    /\ UNCHANGED <<SITES_PER_HOST, globalTxnEndCountdownLatch, sharedEngineCondition,
                   mpExecutor, mpEngineLocals, enginesByPartitionId, executorList, apart,
                   threadContext, pos, ctr, needsReleaseLock, calls, returned,
                   executed, tables, history>>

\* CatchRebind with the catch block's assignThreadLocals left out.
CatchRebind_Skipped(s) ==
    /\ pc[s] = "catchRebind"
    /\ UNCHANGED threadContext
    /\ pc' = [pc EXCEPT ![s] = "catchSignal"]
    /\ UNCHANGED <<shared, executorList, apart, pos, ctr, needsReleaseLock, calls, returned,
                   executed, tables, history>>

\* catch: ExecutorContext::assignThreadLocals(*ourEngineLocals);
CatchRebind(s) ==
    /\ pc[s] = "catchRebind"
    /\ assignThreadLocals(s, ourEngineLocals(s))
    /\ pc' = [pc EXCEPT ![s] = "catchSignal"]
    /\ UNCHANGED <<shared, executorList, apart, pos, ctr, needsReleaseLock, calls, returned,
                   executed, tables, history>>

\* catch: VoltDBEngine::signalLastSiteFinished(); }  (the call)
CatchSignal(s) ==
    /\ pc[s] = "catchSignal"
    /\ signalLastSiteFinishedEnter
    /\ signalled' = [signalled EXCEPT ![s] = @ + 1]
    /\ pc' = [pc EXCEPT ![s] = "catchSignalSpin"]
    /\ UNCHANGED <<SITES_PER_HOST, globalTxnStartCountdownLatch, mpExecutor,
                   mpEngineLocals, enginesByPartitionId, executorList, apart, threadContext,
                   pos, ctr, needsReleaseLock, calls, returned, executed, tables,
                   entered, passed, drove, execStarted, execFinished>>

\* catch: signalLastSiteFinished() returns; the cleanup follows.
CatchSignalDone(s) ==
    /\ pc[s] = "catchSignalSpin"
    /\ signalLastSiteFinishedBroadcast
    /\ passed' = [passed EXCEPT ![s] = @ + 1]
    /\ pc' = [pc EXCEPT ![s] = "cleanup"]
    /\ UNCHANGED <<SITES_PER_HOST, globalTxnStartCountdownLatch, mpExecutor,
                   mpEngineLocals, enginesByPartitionId, executorList, apart, threadContext,
                   pos, ctr, needsReleaseLock, calls, returned, executed, tables,
                   entered, drove, signalled, execStarted, execFinished>>

\* cleanupAllExecutors releasing only the executors that ran to completion.
cleanupAllExecutors_OnlyExecuted(s) ==
    [outputTempTable EXCEPT ![s] = [i \in 1..ttl |->
                                      IF i <= ctr[s] THEN FALSE ELSE outputTempTable[s][i]]]

\* cleanupAllExecutors(): cleanupExecutorsForSubquery over every list of
\* m_executorsMap, i.e. cleanupTempOutputTable() on each of the site's executors.
cleanupAllExecutors(s) ==
    [outputTempTable EXCEPT ![s] = [i \in 1..ttl |-> FALSE]]

\* The catch block's loop over executorList: cleanupMemoryPool() on the
\* executor of every inline plan node of every node of the list.
cleanupInlinePools(s) ==
    [inlinePool EXCEPT ![s] = [i \in 1..ttl |-> FALSE]]

\* CatchCleanup cleaning the inline children's pools where cleanupAllExecutors
\* is called.
CatchCleanup_PoolsFirst(s) ==
    /\ pc[s] = "cleanup"
    /\ inlinePool' = [inlinePool EXCEPT ![s] = [i \in 1..ttl |-> FALSE]]
    /\ pc' = [pc EXCEPT ![s] = "cleanPools"]
    /\ UNCHANGED <<shared, executorList, apart, threadContext, pos, ctr, needsReleaseLock,
                   calls, returned, executed, outputTempTable, replicatedRows, history>>

\* catch: cleanupAllExecutors();
CatchCleanup(s) ==
    /\ pc[s] = "cleanup"
    /\ outputTempTable' = cleanupAllExecutors(s)
    /\ pc' = [pc EXCEPT ![s] = "cleanPools"]
    /\ UNCHANGED <<shared, executorList, apart, threadContext, pos, ctr, needsReleaseLock,
                   calls, returned, executed, inlinePool, replicatedRows, history>>

\* catch: the loop calling the inline executors' cleanupMemoryPool(), the trace
\* of the failing position, and throw; the caller receives the exception.
CatchCleanPools(s) ==
    /\ pc[s] = "cleanPools"
    /\ inlinePool' = cleanupInlinePools(s)
    /\ returned' = [returned EXCEPT ![s] = <<"exception">>]
    /\ pc' = [pc EXCEPT ![s] = "idle"]
    /\ UNCHANGED <<shared, executorList, apart, threadContext, pos, ctr, needsReleaseLock,
                   calls, executed, outputTempTable, replicatedRows, history>>

\* Return handing out the output table of the first executor of the list.
Return_FirstTable(s) ==
    /\ pc[s] = "foreach"
    /\ pos[s] > ttl
    /\ returned' = [returned EXCEPT ![s] = <<"table", s, 1>>]
    /\ pc' = [pc EXCEPT ![s] = "idle"]
    /\ UNCHANGED <<shared, executorList, apart, threadContext, pos, ctr, needsReleaseLock,
                   calls, executed, tables, history>>

\* return executorList[ttl-1]->getPlanNode()->getOutputTable();
Return(s) ==
    /\ pc[s] = "foreach"
    /\ pos[s] > ttl
    /\ returned' = [returned EXCEPT ![s] = <<"table", s, ttl>>]
    /\ pc' = [pc EXCEPT ![s] = "idle"]
    /\ UNCHANGED <<shared, executorList, apart, threadContext, pos, ctr, needsReleaseLock,
                   calls, executed, tables, history>>

SiteStep(s) ==
    \/ ExecuteOther(s)
    \/ Publish(s)
    \/ CountDown(s)
    \/ DriverExecuteBegin(s)
    \/ DriverExecuteEnd(s)
    \/ DriverClearMpExecutor(s)
    \/ DriverResetLatch(s)
    \/ DriverRebind(s)
    \/ DriverSignal(s)
    \/ DriverSignalDone(s)
    \/ WaitEnter(s)
    \/ WaitReturn(s)
    \/ CatchResetLatch(s)
    \/ CatchRebind(s)
    \/ CatchSignal(s)
    \/ CatchSignalDone(s)
    \/ CatchCleanup(s)
    \/ CatchCleanPools(s)
    \/ Return(s)

Next ==
    \/ HostStartup
    \/ \E s \in Sites : Call(s)
    \/ \E s \in Sites : SiteStep(s)

Spec == Init /\ [][Next]_vars

\* The sites' threads keep running: a step of a site that stays possible is
\* eventually taken. Whether the host calls executeExecutors at all is its own
\* choice.
FairSpec == Spec /\ \A s \in Sites : WF_vars(SiteStep(s))

\* Every vector executeExecutors(executorList, subqueryId) can be handed, the
\* empty one included: the function has no test of executorList.size().
AnyExecutorLists == UNION {[1..n -> PlanNodeKinds] : n \in 0..MaxLen}

\* Init with the site's list drawn from every vector the function accepts.
AnyListInit ==
    /\ SITES_PER_HOST = -1
    /\ globalTxnStartCountdownLatch = 0
    /\ globalTxnEndCountdownLatch = 0
    /\ sharedEngineCondition = {}
    /\ mpExecutor = NULL
    /\ mpEngineLocals = [context |-> NULL]
    /\ enginesByPartitionId = [p \in Sites |-> [context |-> NULL]]
    /\ executorList \in AnyExecutorLists
    /\ threadContext = [s \in Sites |-> NULL]
    /\ pc = [s \in Sites |-> "idle"]
    /\ pos = [s \in Sites |-> 1]
    /\ ctr = [s \in Sites |-> 0]
    /\ needsReleaseLock = [s \in Sites |-> FALSE]
    /\ calls = [s \in Sites |-> 0]
    /\ outputTempTable = [s \in Sites |-> [i \in 1..ttl |-> FALSE]]
    /\ inlinePool = [s \in Sites |-> [i \in 1..ttl |-> FALSE]]
    /\ returned = [s \in Sites |-> <<"none">>]
    /\ executed = [s \in Sites |-> <<>>]
    /\ replicatedRows = 0
    /\ entered = [s \in Sites |-> 0]
    /\ passed = [s \in Sites |-> 0]
    /\ drove = [s \in Sites |-> 0]
    /\ signalled = [s \in Sites |-> 0]
    /\ execStarted = [s \in Sites |-> 0]
    /\ execFinished = 0
    /\ DrUnused
    /\ ClUnused
    /\ TlUnused
    /\ WfUnused
    /\ SwUnused
    /\ PjUnused

\* return executorList[ttl-1]->getPlanNode()->getOutputTable(); with ttl = 0:
\* ttl-1 wraps to the largest size_t and operator[] reads outside the vector,
\* which is undefined: the process crashes on the read or on the calls made
\* through what was read, or the caller is handed a pointer that is no
\* executor's output table.
ReturnOutOfBounds(s) ==
    /\ pc[s] = "foreach"
    /\ pos[s] > ttl
    /\ ttl = 0
    /\ \/ /\ pc' = [pc EXCEPT ![s] = "crashed"]
          /\ returned' = returned
       \/ /\ pc' = [pc EXCEPT ![s] = "idle"]
          /\ returned' = [returned EXCEPT ![s] = <<"garbage">>]
    /\ UNCHANGED <<shared, executorList, apart, threadContext, pos, ctr, needsReleaseLock,
                   calls, executed, tables, history>>

AnyListNext ==
    \/ HostStartup
    \/ \E s \in Sites : Call(s)
    \/ \E s \in Sites : ttl >= 1 /\ SiteStep(s)
    \/ \E s \in Sites : ReturnOutOfBounds(s)

AnyListSpec == AnyListInit /\ [][AnyListNext]_vars

TypeOK ==
    /\ SITES_PER_HOST \in {-1, NumSites}
    /\ globalTxnStartCountdownLatch \in 0..NumSites
    /\ globalTxnEndCountdownLatch \in 0..NumSites
    /\ sharedEngineCondition \subseteq Sites
    /\ mpExecutor \in {NULL} \cup (1..ttl)
    /\ \A s \in Sites : pc[s] # "crashed"

\* ----------------------------------------------------- DR stream rotation
\* The coordination's variables while another component is looked at: the
\* statics as initialised, one idle site list.
ExecUnused ==
    /\ SITES_PER_HOST = -1
    /\ globalTxnStartCountdownLatch = 0
    /\ globalTxnEndCountdownLatch = 0
    /\ sharedEngineCondition = {}
    /\ mpExecutor = NULL
    /\ mpEngineLocals = [context |-> NULL]
    /\ enginesByPartitionId = [p \in Sites |-> [context |-> NULL]]
    /\ executorList = <<"OTHER">>
    /\ threadContext = [s \in Sites |-> NULL]
    /\ pc = [s \in Sites |-> "idle"]
    /\ pos = [s \in Sites |-> 1]
    /\ ctr = [s \in Sites |-> 0]
    /\ needsReleaseLock = [s \in Sites |-> FALSE]
    /\ calls = [s \in Sites |-> 0]
    /\ outputTempTable = [s \in Sites |-> <<FALSE>>]
    /\ inlinePool = [s \in Sites |-> <<FALSE>>]
    /\ returned = [s \in Sites |-> <<"none">>]
    /\ executed = [s \in Sites |-> <<>>]
    /\ replicatedRows = 0
    /\ entered = [s \in Sites |-> 0]
    /\ passed = [s \in Sites |-> 0]
    /\ drove = [s \in Sites |-> 0]
    /\ signalled = [s \in Sites |-> 0]
    /\ execStarted = [s \in Sites |-> 0]
    /\ execFinished = 0

\* What the rotation of the DR streams leaves alone.
drRest == <<execVars, clVars, liveContexts, wfVars, swVars, pjVars>>

Max(a, b) == IF a >= b THEN a ELSE b

\* A stream the host has made for a rotation.
NewStream(n, h) == [committedSequenceNumber |-> n, openSpHandle |-> h, flushedTo |-> -1]

\* AbstractDRTupleStream::periodicFlush(-1L, lastCommittedSpHandle) on stream
\* st of pool: the stream is flushed up to lastCommittedSpHandle.
periodicFlush(pool, st, lastCommittedSpHandle) ==
    [pool EXCEPT ![st].flushedTo = lastCommittedSpHandle]

\* AbstractDRTupleStream::setLastCommittedSequenceNumber(n) on stream st.
setLastCommittedSequenceNumber(pool, st, n) ==
    [pool EXCEPT ![st].committedSequenceNumber = n]

\* The context as its constructor leaves it: m_drStream and
\* m_drReplicatedStream as passed in (the replicated stream may be null),
\* m_lastCommittedSpHandle 0.
DrInit ==
    /\ ExecUnused
    /\ ClUnused
    /\ TlUnused
    /\ WfUnused
    /\ SwUnused
    /\ PjUnused
    /\ drStreams = <<FreshStream, FreshStream>>
    /\ m_drStream = 1
    /\ m_drReplicatedStream \in {NULL, 2}
    /\ m_lastCommittedSpHandle = 0
    /\ drPc = "idle"
    /\ drArg = NULL
    /\ oldSeqNum = 0
    /\ drBefore = [old |-> NULL, seq |-> 0, newSeq |-> 0, prec |-> TRUE]
    /\ drRotations = <<>>

\* Between rotations a transaction commits on an installed stream: its
\* committedSequenceNumber grows by one.
DrStreamCommit ==
    /\ drPc = "idle"
    /\ \E st \in {m_drStream, m_drReplicatedStream} \ {NULL} :
         /\ drStreams[st].committedSequenceNumber < MaxSeq
         /\ drStreams' = [drStreams EXCEPT ![st].committedSequenceNumber = @ + 1]
    /\ UNCHANGED <<m_drStream, m_drReplicatedStream, m_lastCommittedSpHandle, drPc,
                   drArg, oldSeqNum, drBefore, drRotations, drRest>>

\* Between rotations the context's last committed sp handle advances.
DrAdvanceSpHandle ==
    /\ drPc = "idle"
    /\ m_lastCommittedSpHandle < MaxSp
    /\ m_lastCommittedSpHandle' = m_lastCommittedSpHandle + 1
    /\ UNCHANGED <<drStreams, m_drStream, m_drReplicatedStream, drPc, drArg,
                   oldSeqNum, drBefore, drRotations, drRest>>

\* int64_t lastCommittedSpHandle =
\*     std::max(m_lastCommittedSpHandle, drStream->m_openSpHandle);
\* with the max dropped.
lastCommittedSpHandle_NoMax(pool, drStream) == m_lastCommittedSpHandle

\* int64_t lastCommittedSpHandle =
\*     std::max(m_lastCommittedSpHandle, drStream->m_openSpHandle);
lastCommittedSpHandle(pool, drStream) ==
    Max(m_lastCommittedSpHandle, pool[drStream].openSpHandle)

\* setDrStream, lines 300-304: the asserts, the flush bound, and
\* m_drStream->periodicFlush(-1L, lastCommittedSpHandle). The argument is a stream
\* the host has just made, or null. A failed assert ends a debug build; a
\* release build goes on, and ends on a null pointer.
setDrStreamFlush ==
    /\ drPc = "idle"
    /\ Len(drStreams) < 2 + MaxRotations
    /\ \E n \in 0..MaxSeq, h \in 0..MaxSp, isNull \in BOOLEAN, build \in {"debug", "release"} :
         LET pool == IF isNull THEN drStreams ELSE Append(drStreams, NewStream(n, h))
             drStream == IF isNull THEN NULL ELSE Len(pool)
             anyNull == m_drStream = NULL \/ drStream = NULL
             precondition ==
                 /\ ~anyNull
                 /\ pool[m_drStream].committedSequenceNumber >= pool[drStream].committedSequenceNumber
         IN  IF anyNull \/ (~precondition /\ build = "debug")
               THEN /\ drPc' = "aborted"
                    /\ UNCHANGED <<drStreams, drArg, drBefore>>
               ELSE /\ drStreams' = periodicFlush(pool, m_drStream, lastCommittedSpHandle(pool, drStream))
                    /\ drArg' = drStream
                    /\ drBefore' = [old |-> m_drStream,
                                    seq |-> pool[m_drStream].committedSequenceNumber,
                                    newSeq |-> n, prec |-> precondition]
                    /\ drPc' = "sdsFlushed"
    /\ UNCHANGED <<m_drStream, m_drReplicatedStream, m_lastCommittedSpHandle, oldSeqNum,
                   drRotations, drRest>>

\* setDrStreamInstall reading oldSeqNum after the pointer has been swapped.
setDrStreamInstall_ReadsNew ==
    /\ drPc = "sdsFlushed"
    /\ oldSeqNum' = drStreams[drArg].committedSequenceNumber
    /\ m_drStream' = drArg
    /\ drPc' = "sdsInstalled"
    /\ UNCHANGED <<drStreams, m_drReplicatedStream, m_lastCommittedSpHandle, drArg,
                   drBefore, drRotations, drRest>>

\* int64_t oldSeqNum = m_drStream->m_committedSequenceNumber; m_drStream = drStream;
setDrStreamInstall ==
    /\ drPc = "sdsFlushed"
    /\ oldSeqNum' = drStreams[m_drStream].committedSequenceNumber
    /\ m_drStream' = drArg
    /\ drPc' = "sdsInstalled"
    /\ UNCHANGED <<drStreams, m_drReplicatedStream, m_lastCommittedSpHandle, drArg,
                   drBefore, drRotations, drRest>>

\* setDrStreamCopy without the call of setLastCommittedSequenceNumber.
setDrStreamCopy_Skipped ==
    /\ drPc = "sdsInstalled"
    /\ drStreams' = drStreams
    /\ drRotations' = Append(drRotations,
                             [seq |-> drStreams'[m_drStream].committedSequenceNumber,
                              prec |-> drBefore.prec])
    /\ drPc' = "idle"
    /\ UNCHANGED <<m_drStream, m_drReplicatedStream, m_lastCommittedSpHandle, drArg,
                   oldSeqNum, drBefore, drRest>>

\* m_drStream->setLastCommittedSequenceNumber(oldSeqNum); setDrStream returns.
setDrStreamCopy ==
    /\ drPc = "sdsInstalled"
    /\ drStreams' = setLastCommittedSequenceNumber(drStreams, m_drStream, oldSeqNum)
    /\ drRotations' = Append(drRotations,
                             [seq |-> drStreams'[m_drStream].committedSequenceNumber,
                              prec |-> drBefore.prec])
    /\ drPc' = "idle"
    /\ UNCHANGED <<m_drStream, m_drReplicatedStream, m_lastCommittedSpHandle, drArg,
                   oldSeqNum, drBefore, drRest>>

\* setDrReplicatedStream, lines 311-315: the asserts, the flush bound, and
\* m_drReplicatedStream->periodicFlush(-1L, lastCommittedSpHandle). The argument is a stream
\* the host has just made, or null. A failed assert ends a debug build; a
\* release build goes on, and ends on a null pointer.
setDrReplicatedStreamFlush ==
    /\ drPc = "idle"
    /\ Len(drStreams) < 2 + MaxRotations
    /\ \E n \in 0..MaxSeq, h \in 0..MaxSp, isNull \in BOOLEAN, build \in {"debug", "release"} :
         LET pool == IF isNull THEN drStreams ELSE Append(drStreams, NewStream(n, h))
             drStream == IF isNull THEN NULL ELSE Len(pool)
             anyNull == m_drReplicatedStream = NULL \/ drStream = NULL
             precondition ==
                 /\ ~anyNull
                 /\ pool[m_drReplicatedStream].committedSequenceNumber >= pool[drStream].committedSequenceNumber
         IN  IF anyNull \/ (~precondition /\ build = "debug")
               THEN /\ drPc' = "aborted"
                    /\ UNCHANGED <<drStreams, drArg, drBefore>>
               ELSE /\ drStreams' = periodicFlush(pool, m_drReplicatedStream, lastCommittedSpHandle(pool, drStream))
                    /\ drArg' = drStream
                    /\ drBefore' = [old |-> m_drReplicatedStream,
                                    seq |-> pool[m_drReplicatedStream].committedSequenceNumber,
                                    newSeq |-> n, prec |-> precondition]
                    /\ drPc' = "sdrsFlushed"
    /\ UNCHANGED <<m_drStream, m_drReplicatedStream, m_lastCommittedSpHandle, oldSeqNum,
                   drRotations, drRest>>

\* int64_t oldSeqNum = m_drReplicatedStream->m_committedSequenceNumber;
\* m_drReplicatedStream = drReplicatedStream;
setDrReplicatedStreamInstall ==
    /\ drPc = "sdrsFlushed"
    /\ oldSeqNum' = drStreams[m_drReplicatedStream].committedSequenceNumber
    /\ m_drReplicatedStream' = drArg
    /\ drPc' = "sdrsInstalled"
    /\ UNCHANGED <<drStreams, m_drStream, m_lastCommittedSpHandle, drArg, drBefore,
                   drRotations, drRest>>

\* m_drReplicatedStream->setLastCommittedSequenceNumber(oldSeqNum);
\* setDrReplicatedStream returns.
setDrReplicatedStreamCopy ==
    /\ drPc = "sdrsInstalled"
    /\ drStreams' = setLastCommittedSequenceNumber(drStreams, m_drReplicatedStream, oldSeqNum)
    /\ drPc' = "idle"
    /\ UNCHANGED <<m_drStream, m_drReplicatedStream, m_lastCommittedSpHandle, drArg,
                   oldSeqNum, drBefore, drRotations, drRest>>

DrNext ==
    \/ DrStreamCommit
    \/ DrAdvanceSpHandle
    \/ setDrStreamFlush
    \/ setDrStreamInstall
    \/ setDrStreamCopy
    \/ setDrReplicatedStreamFlush
    \/ setDrReplicatedStreamInstall
    \/ setDrReplicatedStreamCopy

DrSpec == DrInit /\ [][DrNext]_vars

\* ------------------------------------------------------ cleanupAllExecutors
\* What the cleanup of the executors leaves alone.
clRest == <<execVars, drVars, liveContexts, wfVars, swVars, pjVars>>

\* Subquery ids; 0 is the statement itself.
SubqueryIds == 0..MaxSubqueries

\* The numbers of executors a subquery's list may have.
ClListLengths == {1, 2}

\* AbstractExecutor::cleanupTempOutputTable(): the temp output table gives up
\* its rows.
cleanupTempOutputTable(rows) == 0

\* AbstractExecutor::outputTempTableIsEmpty()
outputTempTableIsEmpty(rows) == rows = 0

\* cleanupExecutorsForSubquery cleaning the first executor that holds rows and
\* leaving the loop.
cleanupExecutorsForSubquery_FirstOnly(executors) ==
    [i \in DOMAIN executors |->
        IF \A j \in 1..(i - 1) : outputTempTableIsEmpty(executors[j])
          THEN cleanupTempOutputTable(executors[i])
          ELSE executors[i]]

\* cleanupExecutorsForSubquery(executorList): cleanupTempOutputTable() on
\* every executor of the list.
cleanupExecutorsForSubquery(executors) ==
    [i \in DOMAIN executors |-> cleanupTempOutputTable(executors[i])]

\* allOutputTempTablesAreEmpty()
allOutputTempTablesAreEmpty ==
    \A id \in DOMAIN m_executorsMap :
        \A i \in DOMAIN m_executorsMap[id] : outputTempTableIsEmpty(m_executorsMap[id][i])

\* The context with its executors map set up: every subquery has its list,
\* nothing has run.
ClInit ==
    /\ ExecUnused
    /\ DrUnused
    /\ TlUnused
    /\ WfUnused
    /\ SwUnused
    /\ PjUnused
    /\ m_executorsMap \in [SubqueryIds -> UNION {[1..n -> {0}] : n \in ClListLengths}]
    /\ m_subqueryContextMap = {}
    /\ clCalls = 0
    /\ clDirtyBefore = FALSE

\* An executor of a subquery's list runs and leaves rows in its temp output
\* table; running a subquery other than the statement caches its context.
ClExecute ==
    /\ \E id \in SubqueryIds, r \in 1..MaxRows :
         \E i \in DOMAIN m_executorsMap[id] :
            /\ m_executorsMap' = [m_executorsMap EXCEPT ![id][i] = r]
            /\ m_subqueryContextMap' =
                 IF id = 0 THEN m_subqueryContextMap ELSE m_subqueryContextMap \cup {id}
    /\ clCalls' = 0
    /\ clDirtyBefore' = FALSE
    /\ UNCHANGED clRest

\* cleanupAllExecutors(): cleanupExecutorsForSubquery for every entry of
\* m_executorsMap, then m_subqueryContextMap.clear().
ClCleanupAllExecutors ==
    /\ clCalls < MaxCleanups
    /\ m_executorsMap' =
         [id \in DOMAIN m_executorsMap |-> cleanupExecutorsForSubquery(m_executorsMap[id])]
    /\ m_subqueryContextMap' = {}
    /\ clCalls' = clCalls + 1
    /\ clDirtyBefore' = IF clCalls = 0
                          THEN ~allOutputTempTablesAreEmpty /\ m_subqueryContextMap # {}
                          ELSE clDirtyBefore
    /\ UNCHANGED clRest

ClNext ==
    \/ ClExecute
    \/ ClCleanupAllExecutors

ClSpec == ClInit /\ [][ClNext]_vars

\* ---------------------------------------------------- thread-local binding
\* What constructing, destroying and binding contexts leaves alone.
tlRest == <<shared, executorList, pc, pos, ctr, needsReleaseLock, calls, returned,
            executed, tables, history, drVars, clVars, wfVars, swVars, pjVars>>

\* No context exists, no thread has a value under static_key.
TlInit ==
    /\ ExecUnused
    /\ DrUnused
    /\ ClUnused
    /\ WfUnused
    /\ SwUnused
    /\ PjUnused
    /\ liveContexts = [c \in Contexts |-> NULL]

\* ExecutorContext::getExecutorContext() on thread t
getExecutorContext(t) == threadContext[t]

\* ExecutorContext::ExecutorContext(...) on thread t: the members are set and
\* bindToThread() stores this under the thread's key.
TlConstruct(t, c) ==
    /\ liveContexts[c] = NULL
    /\ liveContexts' = [liveContexts EXCEPT ![c] = t]
    /\ threadContext' = [threadContext EXCEPT ![t] = c]
    /\ UNCHANGED tlRest

\* ExecutorContext::~ExecutorContext() run by thread t on context c:
\* pthread_setspecific(static_key, NULL).
TlDestroy(t, c) ==
    /\ liveContexts[c] # NULL
    /\ liveContexts' = [liveContexts EXCEPT ![c] = NULL]
    /\ threadContext' = [threadContext EXCEPT ![t] = NULL]
    /\ UNCHANGED tlRest

\* ExecutorContext::bindToThread() of context c called on thread t.
TlBindToThread(t, c) ==
    /\ liveContexts[c] # NULL
    /\ threadContext' = [threadContext EXCEPT ![t] = c]
    /\ UNCHANGED <<liveContexts, tlRest>>

\* ExecutorContext::assignThreadLocals(mapping) on thread t, with the
\* EngineLocals of a live context.
TlAssignThreadLocals(t, c) ==
    /\ liveContexts[c] # NULL
    /\ assignThreadLocals(t, [context |-> c])
    /\ UNCHANGED <<liveContexts, tlRest>>

TlNext ==
    \E t \in Sites, c \in Contexts :
        \/ TlConstruct(t, c)
        \/ TlDestroy(t, c)
        \/ TlBindToThread(t, c)
        \/ TlAssignThreadLocals(t, c)

TlSpec == TlInit /\ [][TlNext]_vars

\* ------------------------------------------------- window function executor
\* What a run of the window function executor leaves alone.
wfRest == <<execVars, drVars, clVars, liveContexts, swVars, pjVars>>

\* The rows an input table may hold and the tables the runs are made on.
PartitionKeys == {1, 2}
OrderKeys == 1..MaxKey
WfRows == PartitionKeys \X OrderKeys

\* A null NValue.
NullNValue == -1

\* The rows whose order column is null, and the input tables: those without
\* nulls of up to MaxInput rows and those with nulls of up to MaxNullInput rows.
NullRows == PartitionKeys \X {NullNValue}
WfInputs ==
    UNION ({[1..n -> WfRows] : n \in 0..MaxInput}
             \cup {[1..n -> WfRows \cup NullRows] : n \in 0..MaxNullInput})

\* The plans the runs are made with. One asks for RANK, DENSE_RANK, COUNT(*)
\* and COUNT(E), E being the order column; the other also asks for MIN, a
\* type getWindowedAggInstance has no case for.
WindowPlans ==
    {[aggTypes |-> <<"RANK", "DENSE_RANK", "COUNT", "COUNT">>,
      inputExpressions |-> <<(<<>>), (<<>>), (<<>>), (<<2>>)>>],
     [aggTypes |-> <<"RANK", "MIN">>,
      inputExpressions |-> <<(<<>>), (<<2>>)>>]}

\* Tuple storage as the pool hands it out: n zeroed values.
Zeroes(n) == [i \in 1..n |-> 0]

\* The key tuple of a row: each key expression evaluated on the row (the
\* expressions are column references).
EvalKey(exprs, tuple) == [i \in 1..Len(exprs) |-> tuple[exprs[i]]]

\* NValue::compare on two values of one integer type: a null equals a null
\* and is below every other value.
NValueCompare(a, b) == IF a < b THEN -1 ELSE IF a > b THEN 1 ELSE 0

RECURSIVE CompareFrom(_, _, _)
\* compareTuples' loop from column ii down to the first column.
CompareFrom(tuple1, tuple2, ii) ==
    IF ii = 0
      THEN 0
      ELSE LET cmp == NValueCompare(tuple2[ii], tuple1[ii])
           IN  IF cmp # 0 THEN cmp ELSE CompareFrom(tuple1, tuple2, ii - 1)

\* WindowFunctionExecutor::compareTuples(tuple1, tuple2)
compareTuples(tuple1, tuple2) == CompareFrom(tuple1, tuple2, Len(tuple1))

\* The aggregate types getWindowedAggInstance has a case for; any other type
\* makes it throw "Unknown aggregate type".
KnownAggTypes == {"RANK", "DENSE_RANK", "COUNT"}

\* getWindowedAggInstance: the aggregate object as its constructor leaves it.
\* lookaheadOneRowCalls counts the calls of lookaheadOneRow on the object.
getWindowedAggInstance(aggType) ==
    IF aggType \in {"RANK", "DENSE_RANK"}
      THEN [type |-> aggType, m_value |-> 1, m_orderByPeerIncrement |-> 1,
            m_needsLookahead |-> FALSE, lookaheadOneRowCalls |-> 0]
      ELSE [type |-> aggType, m_value |-> NullNValue, m_orderByPeerIncrement |-> 0,
            m_needsLookahead |-> TRUE, lookaheadOneRowCalls |-> 0]

\* resetAgg(): DenseRankAgg (and RankAgg) go back to 1 with increment 1,
\* CountAgg to 0.
resetAgg(agg) ==
    IF agg.type \in {"RANK", "DENSE_RANK"}
      THEN [agg EXCEPT !.m_value = 1, !.m_orderByPeerIncrement = 1]
      ELSE [agg EXCEPT !.m_value = 0]

\* CountAgg::lookaheadOneRow counting a row whose argument is null.
lookaheadOneRow_CountsNulls(agg, argVals) ==
    IF agg.type = "COUNT"
      THEN [agg EXCEPT !.m_value = @ + 1, !.lookaheadOneRowCalls = @ + 1]
      ELSE [agg EXCEPT !.lookaheadOneRowCalls = @ + 1]

\* lookaheadOneRow(window, argVals): CountAgg counts the row unless its
\* argument is null; the other aggregates do nothing.
lookaheadOneRow(agg, argVals) ==
    IF agg.type = "COUNT" /\ (Len(argVals) = 0 \/ argVals[1] # NullNValue)
      THEN [agg EXCEPT !.m_value = @ + 1, !.lookaheadOneRowCalls = @ + 1]
      ELSE [agg EXCEPT !.lookaheadOneRowCalls = @ + 1]

\* lookaheadOneRowForAggs not looking at m_needsLookahead.
lookaheadOneRowForAggs_EveryAggregate(aggregates, tuple) ==
    [ii \in DOMAIN aggregates |->
        lookaheadOneRow(aggregates[ii], EvalKey(m_aggregateInputExpressions[ii], tuple))]

\* WindowFunctionExecutor::lookaheadOneRowForAggs: only the aggregates that
\* ask for it see the row, with their argument expressions evaluated on it
\* (COUNT(*) has none).
lookaheadOneRowForAggs(aggregates, tuple) ==
    [ii \in DOMAIN aggregates |->
        IF aggregates[ii].m_needsLookahead
          THEN lookaheadOneRow(aggregates[ii],
                               EvalKey(m_aggregateInputExpressions[ii], tuple))
          ELSE aggregates[ii]]

\* RankAgg::lookaheadNextGroup with the increment left at one.
lookaheadNextGroup_IncrementOne(agg, groupSize) ==
    IF agg.type = "RANK" THEN [agg EXCEPT !.m_orderByPeerIncrement = 1] ELSE agg

\* lookaheadNextGroup(window): RankAgg takes the group size as its increment.
lookaheadNextGroup(agg, groupSize) ==
    IF agg.type = "RANK" THEN [agg EXCEPT !.m_orderByPeerIncrement = groupSize] ELSE agg

\* DenseRankAgg::endGroup adding the size of the group.
endGroup_AddsGroupSize(agg, groupSize) ==
    IF agg.type \in {"RANK", "DENSE_RANK"}
      THEN [agg EXCEPT !.m_value = @ + groupSize]
      ELSE agg

\* endGroup(window, etype): DenseRankAgg (and RankAgg) add their increment.
endGroup(agg, groupSize) ==
    IF agg.type \in {"RANK", "DENSE_RANK"}
      THEN [agg EXCEPT !.m_value = @ + agg.m_orderByPeerIncrement]
      ELSE agg

\* WindowAggregate::finalize(type)
finalize(agg) == agg.m_value

\* TableIterator::hasNext / next on the input table.
IterHasNext(it) == it.location < Len(wfInput)
IterRow(it) == wfInput[it.location + 1]
IterAdvance(it) == [it EXCEPT !.location = @ + 1]

\* The executor after p_init, about to run on an input table: the scratch
\* tuples are null tuples.
WfInit ==
    /\ ExecUnused
    /\ DrUnused
    /\ ClUnused
    /\ TlUnused
    /\ SwUnused
    /\ PjUnused
    /\ wfInput \in WfInputs
    /\ m_partitionByExpressions \in {<<>>, <<1>>}
    /\ m_orderByExpressions \in {<<>>, <<2>>}
    /\ \E plan \in WindowPlans :
          /\ m_aggTypes = plan.aggTypes
          /\ m_aggregateInputExpressions = plan.inputExpressions
    /\ wfPc = "init"
    /\ window = TableWindow("none")
    /\ etype = "InvalidEdgeType"
    /\ nextEtype = "InvalidEdgeType"
    /\ wfStorage = <<>>
    /\ bufferedInputTuple = NULL
    /\ inProgressPartitionByKey = NULL
    /\ lastPartitionByKey = NULL
    /\ inProgressOrderByKey = NULL
    /\ lastOrderByKey = NULL
    /\ aggs = <<>>
    /\ passThroughTuple = <<>>
    /\ idx = 0
    /\ wfOutput = <<>>
    /\ groupSizes = <<>>
    /\ wfCalls = <<>>

\* initWorkingTupleStorage(): the five scratch tuples, null tuples before, get
\* storage of their own from the pool.
initWorkingTupleStorage ==
    /\ inProgressPartitionByKey = NULL
    /\ inProgressOrderByKey = NULL
    /\ lastPartitionByKey = NULL
    /\ lastOrderByKey = NULL
    /\ bufferedInputTuple = NULL
    /\ inProgressPartitionByKey' = 1
    /\ lastPartitionByKey' = 2
    /\ lastOrderByKey' = 3
    /\ inProgressOrderByKey' = 4
    /\ bufferedInputTuple' = 5
    /\ wfStorage' = <<Zeroes(Len(m_partitionByExpressions)),
                      Zeroes(Len(m_partitionByExpressions)),
                      Zeroes(Len(m_orderByExpressions)),
                      Zeroes(Len(m_orderByExpressions)),
                      Zeroes(2)>>

\* p_execute up to the main loop: initWorkingTupleStorage() gives the five
\* scratch tuples their storage, the TableWindow is made over the input table,
\* the aggregate row and the aggregates are allocated, etype = StartOfInput.
p_executeBegin ==
    /\ wfPc = "init"
    /\ \A ii \in DOMAIN m_aggTypes : m_aggTypes[ii] \in KnownAggTypes
    /\ initWorkingTupleStorage
    /\ window' = TableWindow("input")
    /\ aggs' = [ii \in 1..Len(m_aggTypes) |-> getWindowedAggInstance(m_aggTypes[ii])]
    /\ passThroughTuple' = Zeroes(2)
    /\ etype' = "StartOfInput"
    /\ nextEtype' = "InvalidEdgeType"
    /\ wfPc' = "loop"
    /\ UNCHANGED <<wfInput, m_partitionByExpressions, m_orderByExpressions, wfPlan, idx,
                   wfOutput, groupSizes, wfCalls, wfRest>>

\* p_executeUnknownAggregate with initAggInstances() called only after the
\* leading edge has read the first row.
p_executeUnknownAggregate_AfterFirstRow ==
    /\ wfPc = "init"
    /\ \E unknown \in DOMAIN m_aggTypes :
          /\ m_aggTypes[unknown] \notin KnownAggTypes
          /\ \A ii \in 1..(unknown - 1) : m_aggTypes[ii] \in KnownAggTypes
          /\ aggs' = [ii \in 1..(unknown - 1) |-> getWindowedAggInstance(m_aggTypes[ii])]
    /\ initWorkingTupleStorage
    /\ window' = [TableWindow("input") EXCEPT
                    !.m_leadingEdge = IF wfInput # <<>> THEN [@ EXCEPT !.location = 1] ELSE @]
    /\ passThroughTuple' = Zeroes(2)
    /\ wfPc' = "thrown"
    /\ UNCHANGED <<wfInput, m_partitionByExpressions, m_orderByExpressions, wfPlan, etype,
                   nextEtype, idx, wfOutput, groupSizes, wfCalls, wfRest>>

\* p_execute with an aggregate type getWindowedAggInstance has no case for:
\* initWorkingTupleStorage() has run and the aggregate row is allocated when
\* initAggInstances() throws at the first such type; nothing in p_execute
\* catches the exception, so p_execute_finish() is not reached.
p_executeUnknownAggregate ==
    /\ wfPc = "init"
    /\ \E unknown \in DOMAIN m_aggTypes :
          /\ m_aggTypes[unknown] \notin KnownAggTypes
          /\ \A ii \in 1..(unknown - 1) : m_aggTypes[ii] \in KnownAggTypes
          /\ aggs' = [ii \in 1..(unknown - 1) |-> getWindowedAggInstance(m_aggTypes[ii])]
    /\ initWorkingTupleStorage
    /\ window' = TableWindow("input")
    /\ passThroughTuple' = Zeroes(2)
    /\ wfPc' = "thrown"
    /\ UNCHANGED <<wfInput, m_partitionByExpressions, m_orderByExpressions, wfPlan, etype,
                   nextEtype, idx, wfOutput, groupSizes, wfCalls, wfRest>>

\* The head of the main loop resetting the aggregates at order-by edges too.
MainLoopHead_ResetsEveryGroup ==
    /\ wfPc = "loop"
    /\ etype # "EndOfInput"
    /\ aggs' = IF etype \in {"StartOfInput", "StartOfPartitionByGroup", "StartOfOrderByGroup"}
                 THEN [ii \in DOMAIN aggs |-> resetAgg(aggs[ii])]
                 ELSE aggs
    /\ wfPc' = "findNextEdge"
    /\ wfCalls' = IF etype \in {"StartOfInput", "StartOfPartitionByGroup", "StartOfOrderByGroup"}
                    THEN Append(wfCalls, [op |-> "resetAggs",
                                          at |-> window.m_middleEdge.location + 1])
                    ELSE wfCalls
    /\ UNCHANGED <<wfInput, m_partitionByExpressions, m_orderByExpressions, wfPlan, window,
                   etype, nextEtype, wfStorage, bufferedInputTuple,
                   inProgressPartitionByKey, lastPartitionByKey, inProgressOrderByKey,
                   lastOrderByKey, passThroughTuple, idx, wfOutput, groupSizes, wfRest>>

\* The head of the main loop resetting the aggregates at the start of input only.
MainLoopHead_ResetsAtStartOnly ==
    /\ wfPc = "loop"
    /\ etype # "EndOfInput"
    /\ aggs' = IF etype \in {"StartOfInput"}
                 THEN [ii \in DOMAIN aggs |-> resetAgg(aggs[ii])]
                 ELSE aggs
    /\ wfPc' = "findNextEdge"
    /\ wfCalls' = IF etype \in {"StartOfInput"}
                    THEN Append(wfCalls, [op |-> "resetAggs",
                                          at |-> window.m_middleEdge.location + 1])
                    ELSE wfCalls
    /\ UNCHANGED <<wfInput, m_partitionByExpressions, m_orderByExpressions, wfPlan, window,
                   etype, nextEtype, wfStorage, bufferedInputTuple,
                   inProgressPartitionByKey, lastPartitionByKey, inProgressOrderByKey,
                   lastOrderByKey, passThroughTuple, idx, wfOutput, groupSizes, wfRest>>

\* The head of the main loop: the aggregates are reset at the start of input
\* and at the start of a partition-by group; findNextEdge is called.
MainLoopHead ==
    /\ wfPc = "loop"
    /\ etype # "EndOfInput"
    /\ aggs' = IF etype \in {"StartOfInput", "StartOfPartitionByGroup"}
                 THEN [ii \in DOMAIN aggs |-> resetAgg(aggs[ii])]
                 ELSE aggs
    /\ wfPc' = "findNextEdge"
    /\ wfCalls' = IF etype \in {"StartOfInput", "StartOfPartitionByGroup"}
                    THEN Append(wfCalls, [op |-> "resetAggs",
                                          at |-> window.m_middleEdge.location + 1])
                    ELSE wfCalls
    /\ UNCHANGED <<wfInput, m_partitionByExpressions, m_orderByExpressions, wfPlan, window,
                   etype, nextEtype, wfStorage, bufferedInputTuple,
                   inProgressPartitionByKey, lastPartitionByKey, inProgressOrderByKey,
                   lastOrderByKey, passThroughTuple, idx, wfOutput, groupSizes, wfRest>>

\* The storage after the leading edge has read row into the buffered input
\* tuple and initPartitionByKeyTuple / initOrderByKeyTuple have run: the two
\* tuples of each pair have exchanged their addresses and the in-progress
\* tuples hold the row's keys.
ReadIntoKeys(row) ==
    [wfStorage EXCEPT ![bufferedInputTuple] = row,
                      ![lastPartitionByKey] = EvalKey(m_partitionByExpressions, row),
                      ![lastOrderByKey] = EvalKey(m_orderByExpressions, row)]

\* The swap moving both tuples of a pair to the storage of the last* tuple.
SwapKeyTupleData_Aliased ==
    /\ inProgressPartitionByKey' = lastPartitionByKey
    /\ lastPartitionByKey' = lastPartitionByKey
    /\ inProgressOrderByKey' = lastOrderByKey
    /\ lastOrderByKey' = lastOrderByKey

\* swapPartitionByKeyTupleData() and swapOrderByKeyTupleData()
SwapKeyTupleData ==
    /\ inProgressPartitionByKey' = lastPartitionByKey
    /\ lastPartitionByKey' = inProgressPartitionByKey
    /\ inProgressOrderByKey' = lastOrderByKey
    /\ lastOrderByKey' = inProgressOrderByKey

\* findNextEdge reporting the start of a partition-by group as the end of input.
FindNextEdgeReturns_EndsAtPartition(e, groupSize) ==
    /\ nextEtype' = IF e = "StartOfPartitionByGroup" THEN "EndOfInput" ELSE e
    /\ groupSizes' = Append(groupSizes, groupSize)
    /\ wfCalls' = Append(wfCalls, [op |-> "findNextEdge", at |-> groupSize])
    /\ wfPc' = "lookaheadNextGroup"

\* findNextEdge leaves with edge type e: m_groupSize is what the call found.
FindNextEdgeReturns(e, groupSize) ==
    /\ nextEtype' = e
    /\ groupSizes' = Append(groupSizes, groupSize)
    /\ wfCalls' = Append(wfCalls, [op |-> "findNextEdge", at |-> groupSize])
    /\ wfPc' = "lookaheadNextGroup"

\* findNextEdgeStart not counting the row the previous call has read.
findNextEdgeStart_DropsInheritedRow ==
    /\ wfPc = "findNextEdge"
    /\ IF etype = "StartOfInput"
         THEN IF IterHasNext(window.m_leadingEdge)
                THEN /\ window' = [window EXCEPT !.m_leadingEdge = IterAdvance(@),
                                                 !.m_groupSize = 1]
                     /\ wfStorage' = ReadIntoKeys(IterRow(window.m_leadingEdge))
                     /\ SwapKeyTupleData
                     /\ aggs' = lookaheadOneRowForAggs(aggs, IterRow(window.m_leadingEdge))
                     /\ wfPc' = "scan"
                     /\ UNCHANGED <<nextEtype, groupSizes, wfCalls>>
                ELSE /\ window' = [window EXCEPT !.m_groupSize = 0]
                     /\ FindNextEdgeReturns("EndOfInput", 0)
                     /\ UNCHANGED <<wfStorage, inProgressPartitionByKey, lastPartitionByKey,
                                    inProgressOrderByKey, lastOrderByKey, aggs>>
         ELSE /\ window' = [window EXCEPT !.m_groupSize = 0]
              /\ aggs' = lookaheadOneRowForAggs(aggs, wfStorage[bufferedInputTuple])
              /\ wfPc' = "scan"
              /\ UNCHANGED <<nextEtype, groupSizes, wfCalls, wfStorage, inProgressPartitionByKey,
                             lastPartitionByKey, inProgressOrderByKey, lastOrderByKey>>
    /\ UNCHANGED <<wfInput, m_partitionByExpressions, m_orderByExpressions, wfPlan, etype,
                   bufferedInputTuple, passThroughTuple, idx, wfOutput, wfRest>>

\* findNextEdge(window, etype) up to its loop: at the start of input the first
\* row is read (none: a group of size zero, EndOfInput); otherwise the row the
\* previous call has read is counted.
findNextEdgeStart ==
    /\ wfPc = "findNextEdge"
    /\ IF etype = "StartOfInput"
         THEN IF IterHasNext(window.m_leadingEdge)
                THEN /\ window' = [window EXCEPT !.m_leadingEdge = IterAdvance(@),
                                                 !.m_groupSize = 1]
                     /\ wfStorage' = ReadIntoKeys(IterRow(window.m_leadingEdge))
                     /\ SwapKeyTupleData
                     /\ aggs' = lookaheadOneRowForAggs(aggs, IterRow(window.m_leadingEdge))
                     /\ wfPc' = "scan"
                     /\ UNCHANGED <<nextEtype, groupSizes, wfCalls>>
                ELSE /\ window' = [window EXCEPT !.m_groupSize = 0]
                     /\ FindNextEdgeReturns("EndOfInput", 0)
                     /\ UNCHANGED <<wfStorage, inProgressPartitionByKey, lastPartitionByKey,
                                    inProgressOrderByKey, lastOrderByKey, aggs>>
         ELSE /\ window' = [window EXCEPT !.m_groupSize = 1]
              /\ aggs' = lookaheadOneRowForAggs(aggs, wfStorage[bufferedInputTuple])
              /\ wfPc' = "scan"
              /\ UNCHANGED <<nextEtype, groupSizes, wfCalls, wfStorage, inProgressPartitionByKey,
                             lastPartitionByKey, inProgressOrderByKey, lastOrderByKey>>
    /\ UNCHANGED <<wfInput, m_partitionByExpressions, m_orderByExpressions, wfPlan, etype,
                   bufferedInputTuple, passThroughTuple, idx, wfOutput, wfRest>>

\* One pass of findNextEdge's loop: the leading edge reads a row and the keys
\* are compared with those of the row before; a changed partition-by key ends
\* the call with StartOfPartitionByGroup, else a changed order-by key with
\* StartOfOrderByGroup, else the row joins the group; no row: EndOfInput.
findNextEdgeScan ==
    /\ wfPc = "scan"
    /\ IF IterHasNext(window.m_leadingEdge)
         THEN LET row == IterRow(window.m_leadingEdge)
                  storage == ReadIntoKeys(row)
              IN  /\ wfStorage' = storage
                  /\ SwapKeyTupleData
                  /\ IF compareTuples(storage[inProgressPartitionByKey'],
                                      storage[lastPartitionByKey']) # 0
                       THEN /\ window' = [window EXCEPT !.m_leadingEdge = IterAdvance(@)]
                            /\ FindNextEdgeReturns("StartOfPartitionByGroup", window.m_groupSize)
                            /\ aggs' = aggs
                       ELSE IF compareTuples(storage[inProgressOrderByKey'],
                                             storage[lastOrderByKey']) # 0
                              THEN /\ window' = [window EXCEPT !.m_leadingEdge = IterAdvance(@)]
                                   /\ FindNextEdgeReturns("StartOfOrderByGroup",
                                                          window.m_groupSize)
                                   /\ aggs' = aggs
                              ELSE /\ window' = [window EXCEPT
                                                   !.m_leadingEdge = IterAdvance(@),
                                                   !.m_groupSize = @ + 1]
                                   /\ aggs' = lookaheadOneRowForAggs(aggs, row)
                                   /\ UNCHANGED <<nextEtype, groupSizes, wfCalls, wfPc>>
         ELSE /\ FindNextEdgeReturns("EndOfInput", window.m_groupSize)
              /\ UNCHANGED <<window, wfStorage, inProgressPartitionByKey, lastPartitionByKey,
                             inProgressOrderByKey, lastOrderByKey, aggs>>
    /\ UNCHANGED <<wfInput, m_partitionByExpressions, m_orderByExpressions, wfPlan, etype,
                   bufferedInputTuple, passThroughTuple, idx, wfOutput, wfRest>>

\* lookaheadNextGroupForAggs(window); the emitting loop starts at idx = 0.
LookaheadNextGroup ==
    /\ wfPc = "lookaheadNextGroup"
    /\ aggs' = [ii \in DOMAIN aggs |-> lookaheadNextGroup(aggs[ii], window.m_groupSize)]
    /\ idx' = 0
    /\ wfPc' = "emit"
    /\ wfCalls' = Append(wfCalls, [op |-> "lookaheadNextGroup", at |-> window.m_groupSize])
    /\ UNCHANGED <<wfInput, m_partitionByExpressions, m_orderByExpressions, wfPlan, window,
                   etype, nextEtype, wfStorage, bufferedInputTuple,
                   inProgressPartitionByKey, lastPartitionByKey, inProgressOrderByKey,
                   lastOrderByKey, passThroughTuple, wfOutput, groupSizes, wfRest>>

\* The emitting loop's test with <= for <.
EmitLoopContinues_OneMore == idx <= window.m_groupSize

\* The emitting loop's test stopping one row early.
EmitLoopContinues_OneFewer == idx + 1 < window.m_groupSize

\* for (int idx = 0; idx < window->m_groupSize; idx += 1)
EmitLoopContinues == idx < window.m_groupSize

\* The emitting loop recording the buffered input tuple of the leading edge.
EmitRow_PassesBufferedTuple ==
    /\ wfPc = "emit"
    /\ EmitLoopContinues
    /\ LET nextTuple == wfStorage[bufferedInputTuple]
       IN  /\ window' = [window EXCEPT
                           !.m_middleEdge = IF IterHasNext(@) THEN IterAdvance(@) ELSE @]
           /\ passThroughTuple' = nextTuple
           /\ wfOutput' = Append(wfOutput,
                                 [aggregates |-> [ii \in DOMAIN aggs |-> finalize(aggs[ii])],
                                  passThrough |-> nextTuple])
    /\ idx' = idx + 1
    /\ wfCalls' = Append(wfCalls, [op |-> "finalize", at |-> Len(wfOutput) + 1])
    /\ UNCHANGED <<wfInput, m_partitionByExpressions, m_orderByExpressions, wfPlan, wfPc, etype,
                   nextEtype, wfStorage, bufferedInputTuple, inProgressPartitionByKey,
                   lastPartitionByKey, inProgressOrderByKey, lastOrderByKey, aggs,
                   groupSizes, wfRest>>

\* One pass of the emitting loop: the middle edge reads the next row (a
\* failing next() leaves the tuple as it was), the row is recorded as the
\* pass-through tuple, and insertOutputTuple() inserts the aggregates'
\* finalize() values followed by the pass-through columns.
EmitRow ==
    /\ wfPc = "emit"
    /\ EmitLoopContinues
    /\ LET nextTuple == IF IterHasNext(window.m_middleEdge)
                          THEN IterRow(window.m_middleEdge)
                          ELSE passThroughTuple
       IN  /\ window' = [window EXCEPT
                           !.m_middleEdge = IF IterHasNext(@) THEN IterAdvance(@) ELSE @]
           /\ passThroughTuple' = nextTuple
           /\ wfOutput' = Append(wfOutput,
                                 [aggregates |-> [ii \in DOMAIN aggs |-> finalize(aggs[ii])],
                                  passThrough |-> nextTuple])
    /\ idx' = idx + 1
    /\ wfCalls' = Append(wfCalls, [op |-> "finalize", at |-> Len(wfOutput) + 1])
    /\ UNCHANGED <<wfInput, m_partitionByExpressions, m_orderByExpressions, wfPlan, wfPc, etype,
                   nextEtype, wfStorage, bufferedInputTuple, inProgressPartitionByKey,
                   lastPartitionByKey, inProgressOrderByKey, lastOrderByKey, aggs,
                   groupSizes, wfRest>>

\* The emitting loop is over: endGroupForAggs(window, etype); etype = nextEtype.
EndGroup ==
    /\ wfPc = "emit"
    /\ ~EmitLoopContinues
    /\ aggs' = [ii \in DOMAIN aggs |-> endGroup(aggs[ii], window.m_groupSize)]
    /\ etype' = nextEtype
    /\ wfPc' = "loop"
    /\ wfCalls' = Append(wfCalls, [op |-> "endGroup", at |-> window.m_groupSize])
    /\ UNCHANGED <<wfInput, m_partitionByExpressions, m_orderByExpressions, wfPlan, window,
                   nextEtype, wfStorage, bufferedInputTuple, inProgressPartitionByKey,
                   lastPartitionByKey, inProgressOrderByKey, lastOrderByKey,
                   passThroughTuple, idx, wfOutput, groupSizes, wfRest>>

\* The main loop ends at EndOfInput: p_execute_finish(window) moves the five
\* scratch tuples to the null address and purges the pool; p_execute returns.
p_executeFinish ==
    /\ wfPc = "loop"
    /\ etype = "EndOfInput"
    /\ inProgressPartitionByKey' = NULL
    /\ inProgressOrderByKey' = NULL
    /\ lastPartitionByKey' = NULL
    /\ lastOrderByKey' = NULL
    /\ bufferedInputTuple' = NULL
    /\ wfStorage' = <<>>
    /\ aggs' = <<>>
    /\ wfPc' = "done"
    /\ wfCalls' = wfCalls
    /\ UNCHANGED <<wfInput, m_partitionByExpressions, m_orderByExpressions, wfPlan, window,
                   etype, nextEtype, passThroughTuple, idx, wfOutput, groupSizes, wfRest>>

WfNext ==
    \/ p_executeBegin
    \/ p_executeUnknownAggregate
    \/ MainLoopHead
    \/ findNextEdgeStart
    \/ findNextEdgeScan
    \/ LookaheadNextGroup
    \/ EmitRow
    \/ EndGroup
    \/ p_executeFinish

WfSpec == WfInit /\ [][WfNext]_vars

\* p_execute runs on the site's thread without waiting for anything: a step
\* that is possible is eventually taken.
WfFairSpec == WfSpec /\ WF_vars(WfNext)

\* --------------------------------------------------- swap tables executor
\* What a run of the swap tables executor leaves alone.
swRest == <<execVars, drVars, clVars, liveContexts, wfVars, pjVars>>

\* The executor after p_init, about to swap two persistent tables; the engine
\* has a tally of the tuples modified so far.
SwInit ==
    /\ ExecUnused
    /\ DrUnused
    /\ ClUnused
    /\ TlUnused
    /\ WfUnused
    /\ PjUnused
    /\ \E v1, v2 \in 0..MaxVisible, p1, p2 \in 0..MaxPending :
          /\ targetTable1 = PersistentTable(1, v1, p1)
          /\ targetTable2 = PersistentTable(2, v2, p2)
    /\ m_tuplesModified \in 0..MaxTally
    /\ swTallyBefore = m_tuplesModified
    /\ modified_tuples = 0
    /\ swOutput = <<>>
    /\ swPc = "init"
    /\ swSwaps = 0

\* PersistentTable::visibleTupleCount() and activeTupleCount()
visibleTupleCount(table) == table.visibleTupleCount
activeTupleCount(table) == table.visibleTupleCount + table.pendingDeleteCount

\* The count taken of the active tuples, those awaiting deletion included.
SwCountTuples_CountsActive ==
    /\ swPc = "init"
    /\ modified_tuples' = activeTupleCount(targetTable1) + activeTupleCount(targetTable2)
    /\ swPc' = "counted"
    /\ UNCHANGED <<targetTable1, targetTable2, swOutput, m_tuplesModified, swSwaps,
                   swTallyBefore, swRest>>

\* modified_tuples = targetTable1->visibleTupleCount() + targetTable2->visibleTupleCount()
SwCountTuples ==
    /\ swPc = "init"
    /\ modified_tuples' = visibleTupleCount(targetTable1) + visibleTupleCount(targetTable2)
    /\ swPc' = "counted"
    /\ UNCHANGED <<targetTable1, targetTable2, swOutput, m_tuplesModified, swSwaps,
                   swTallyBefore, swRest>>

\* targetTable1->swapTable(targetTable2, m_engine): each table now holds what
\* the other held.
SwSwapTable ==
    /\ swPc = "counted"
    /\ targetTable1' = targetTable2
    /\ targetTable2' = targetTable1
    /\ swSwaps' = swSwaps + 1
    /\ swPc' = "swapped"
    /\ UNCHANGED <<modified_tuples, swOutput, m_tuplesModified, swTallyBefore, swRest>>

\* The count tuple is set to modified_tuples and inserted into the output table.
SwInsertCount ==
    /\ swPc = "swapped"
    /\ swOutput' = Append(swOutput, <<modified_tuples>>)
    /\ swPc' = "inserted"
    /\ UNCHANGED <<targetTable1, targetTable2, modified_tuples, m_tuplesModified, swSwaps,
                   swTallyBefore, swRest>>

\* m_engine->addToTuplesModified(modified_tuples); return true.
SwAddToTuplesModified ==
    /\ swPc = "inserted"
    /\ m_tuplesModified' = m_tuplesModified + modified_tuples
    /\ swPc' = "done"
    /\ UNCHANGED <<targetTable1, targetTable2, modified_tuples, swOutput, swSwaps,
                   swTallyBefore, swRest>>

SwNext ==
    \/ SwCountTuples
    \/ SwSwapTable
    \/ SwInsertCount
    \/ SwAddToTuplesModified

SwSpec == SwInit /\ [][SwNext]_vars

\* ----------------------------------------------------- projection executor
\* What the projection executor leaves alone.
pjRest == <<execVars, drVars, clVars, liveContexts, wfVars, swVars>>

\* Output column expressions: a reference to an input column, a reference to
\* a parameter, and the sum of an input column and a parameter.
TupleValueExpression(column) == [kind |-> "tuple", a |-> column, b |-> 0]
ParameterValueExpression(index) == [kind |-> "param", a |-> index, b |-> 0]
PlusExpression(column, index) == [kind |-> "plus", a |-> column, b |-> index]

\* AbstractExpression::eval(&tuple, NULL) with the parameters of the run.
Eval(expr, tuple) ==
    CASE expr.kind = "tuple" -> tuple[expr.a]
      [] expr.kind = "param" -> pjParams[expr.a]
      [] expr.kind = "plus" -> tuple[expr.a] + pjParams[expr.b]

\* ExpressionUtil::convertIfAllTupleValues: the source column of each
\* expression when every one is a bare column reference, else null.
convertIfAllTupleValues(exprs) ==
    IF \A c \in DOMAIN exprs : exprs[c].kind = "tuple"
      THEN [c \in DOMAIN exprs |-> exprs[c].a]
      ELSE NullArray

\* ExpressionUtil::convertIfAllParameterValues: the parameter index of each
\* expression when every one is a bare parameter reference, else null.
convertIfAllParameterValues(exprs) ==
    IF \A c \in DOMAIN exprs : exprs[c].kind = "param"
      THEN [c \in DOMAIN exprs |-> exprs[c].a]
      ELSE NullArray

\* The output column expressions of the plan nodes the runs are made with.
ProjectionPlans ==
    {<<TupleValueExpression(1)>>,
     <<TupleValueExpression(2), TupleValueExpression(1)>>,
     <<ParameterValueExpression(2), ParameterValueExpression(1)>>,
     <<TupleValueExpression(1), ParameterValueExpression(1)>>,
     <<PlusExpression(1, 2), TupleValueExpression(2)>>}

\* The input rows, the input tables and the parameter arrays of the runs.
PjRows == {1, 2} \X {1, 2}
PjInputs == UNION {[1..n -> PjRows] : n \in 0..MaxProjInput}
PjParamArrays == [1..2 -> {10, 20}]

\* The executor as constructed, before p_init, with the input table it will
\* run on and the parameters of the run.
PjInit ==
    /\ ExecUnused
    /\ DrUnused
    /\ ClUnused
    /\ TlUnused
    /\ WfUnused
    /\ SwUnused
    /\ pjInput \in PjInputs
    /\ pjParams \in PjParamArrays
    /\ expression_array = <<>>
    /\ all_tuple_array = NullArray
    /\ all_param_array = NullArray
    /\ temp_tuple = <<>>
    /\ pjIterator = 0
    /\ pjOutput = <<>>
    /\ pjPc = "constructed"

\* ProjectionExecutor::p_init: the output table is made with one column per
\* output column expression, the two fast-path arrays are computed and the
\* expressions are copied to expression_array.
PjP_init ==
    /\ pjPc = "constructed"
    /\ \E columnExpressions \in ProjectionPlans :
          /\ all_tuple_array' = convertIfAllTupleValues(columnExpressions)
          /\ all_param_array' = convertIfAllParameterValues(columnExpressions)
          /\ expression_array' = columnExpressions
          /\ temp_tuple' = Zeroes(Len(columnExpressions))
    /\ pjPc' = "initialised"
    /\ UNCHANGED <<pjInput, pjParams, pjIterator, pjOutput, pjRest>>

\* The projecting loop leaving the first output column as it was.
ProjectRow_KeepsFirstColumn(temp, tuple) ==
    [column \in DOMAIN temp |->
        IF column = 1
          THEN temp[column]
          ELSE IF all_tuple_array # NullArray
                 THEN tuple[all_tuple_array[column]]
                 ELSE IF all_param_array # NullArray
                        THEN pjParams[all_param_array[column]]
                        ELSE Eval(expression_array[column], tuple)]

\* The body of the projecting loop: every column of the temp tuple is set,
\* from the source column (all_tuple_array), from the parameter
\* (all_param_array) or by evaluating the expression on the input tuple.
ProjectRow(temp, tuple) ==
    [column \in DOMAIN temp |->
        IF all_tuple_array # NullArray
          THEN tuple[all_tuple_array[column]]
          ELSE IF all_param_array # NullArray
                 THEN pjParams[all_param_array[column]]
                 ELSE Eval(expression_array[column], tuple)]

\* p_execute up to its loop: the iterator is made over the input table.
PjExecuteBegin ==
    /\ pjPc = "initialised"
    /\ pjIterator' = 0
    /\ pjPc' = "loop"
    /\ UNCHANGED <<pjInput, pjParams, expression_array, all_tuple_array, all_param_array,
                   temp_tuple, pjOutput, pjRest>>

\* One pass of the loop: the iterator reads the next input tuple, the temp
\* tuple is filled from it and inserted into the output table.
PjProjectTuple ==
    /\ pjPc = "loop"
    /\ pjIterator < Len(pjInput)
    /\ temp_tuple' = ProjectRow(temp_tuple, pjInput[pjIterator + 1])
    /\ pjOutput' = Append(pjOutput, temp_tuple')
    /\ pjIterator' = pjIterator + 1
    /\ UNCHANGED <<pjInput, pjParams, expression_array, all_tuple_array, all_param_array,
                   pjPc, pjRest>>

\* iterator.next(tuple) fails: return true.
PjReturn ==
    /\ pjPc = "loop"
    /\ pjIterator >= Len(pjInput)
    /\ pjPc' = "done"
    /\ UNCHANGED <<pjInput, pjParams, expression_array, all_tuple_array, all_param_array,
                   temp_tuple, pjIterator, pjOutput, pjRest>>

PjNext ==
    \/ PjP_init
    \/ PjExecuteBegin
    \/ PjProjectTuple
    \/ PjReturn

PjSpec == PjInit /\ [][PjNext]_vars

\* ------------------------------------------------------------------ helpers
RECURSIVE SumUpTo(_, _)
SumUpTo(f, n) == IF n = 0 THEN 0 ELSE f[n] + SumUpTo(f, n - 1)

\* The sum of a per-site counter over the sites.
Total(f) == SumUpTo(f, NumSites)

\* Replicated-insert rounds whose driver has been chosen.
Rounds == Total(drove)

\* Site s is inside the driver's part of a round, between its decrement that
\* yielded zero and the return of signalLastSiteFinished.
DriverPcs ==
    {"execute", "executing", "clearMp", "resetLatch", "rebind", "signal", "signalSpin",
     "catchReset", "catchRebind", "catchSignal", "catchSignalSpin"}

\* Site s is in, or about to enter, signalLastSiteFinished.
SignalPcs == {"signal", "signalSpin", "catchSignal", "catchSignalSpin"}

\* The execute() calls of site s's current call that were made on a
\* replicated INSERT executor.
ReplExecuted(s) == SelectSeq(executed[s], LAMBDA e : executorList[e[2]] = "REPL_INSERT")

AllReplicated == \A i \in 1..ttl : executorList[i] = "REPL_INSERT"
NoneReplicated == \A i \in 1..ttl : executorList[i] = "OTHER"

\* ------------------------------------------------------------------ claims

\* C1: in every round in which all SITES_PER_HOST sites reach the replicated
\* INSERT, execute() of that insert is invoked exactly once in total, by the
\* driver and on mpExecutor: every choice of a driver is followed by one
\* execute() of that site and no other, every site that has gone past its k-th
\* replicated insert has k such executions behind it, and this for every round.
C1_ExactlyOneExecutePerRound ==
    /\ \A s \in Sites :
         execStarted[s] = IF pc[s] = "execute" THEN drove[s] - 1 ELSE drove[s]
    /\ \A s \in Sites : passed[s] <= Total(execStarted)
    /\ Rounds * NumSites <= Total(entered)
    /\ Total(entered) < (Rounds + 1) * NumSites
    /\ \A s \in Sites : \A k \in 1..Len(ReplExecuted(s)) :
         ReplExecuted(s)[k][1] = mpEngineLocals.context
    /\ replicatedRows <= Rounds

C1_Witness ==
    /\ \A s \in Sites : passed[s] = 2
    /\ Total(execStarted) = 2
    /\ replicatedRows = 2

\* C2: no waiter goes past the replicated INSERT (returns from
\* waitForLastSiteFinished and moves on) before the driver's execute() of that
\* round has ended.
C2_WaiterAfterDriverExecute ==
    \A s \in Sites :
        /\ passed[s] <= execFinished
        /\ (pc[s] = "waiting" /\ s \notin sharedEngineCondition) => entered[s] <= execFinished

C2_Witness ==
    \E s \in Sites : drove[s] = 0 /\ passed[s] >= 1 /\ pc[s] = "foreach"

\* Site s has decremented the latch for a round it has not left yet, and every
\* sibling site has reached that round's replicated INSERT too.
InCompleteRound(s) ==
    /\ entered[s] > passed[s]
    /\ \A t \in Sites : entered[t] >= entered[s]

\* C3: once all SITES_PER_HOST sites have reached the replicated INSERT of a
\* round, every site eventually gets past it, whether the driver's execute()
\* succeeds, returns false or throws.
C3_EverySiteProceeds ==
    \A s \in Sites : InCompleteRound(s) ~> (passed[s] = entered[s])

C3_Witness ==
    /\ AllReplicated
    /\ \E d \in Sites : drove[d] = 1 /\ returned[d] = <<"exception">>
    /\ \A s \in Sites : passed[s] >= 1

\* C4: in each round exactly one decrement of the latch yields zero, the last
\* of the SITES_PER_HOST decrements; the site that made it is the driver and
\* every other site is a waiter, so the replicated insert does not start
\* before every sibling site has decremented the latch.
C4_LastDecrementDrives ==
    /\ globalTxnStartCountdownLatch >= 0
    /\ Rounds * NumSites <= Total(entered)
    /\ Total(entered) < (Rounds + 1) * NumSites
    /\ \A s \in Sites :
         pc[s] \in {"execute", "executing"} =>
            /\ globalTxnStartCountdownLatch = 0
            /\ \A t \in Sites : entered[t] = Rounds
            /\ \A t \in Sites \ {s} : pc[t] \in {"wait", "waiting"}

C4_Witness ==
    \E s \in Sites : pc[s] = "executing" /\ Rounds = 2

\* C5: whenever the driver calls signalLastSiteFinished, on the success path
\* and in the catch block alike, the latch is back at SITES_PER_HOST.
C5_LatchResetBeforeSignal ==
    \A s \in Sites : pc[s] \in SignalPcs => globalTxnStartCountdownLatch = SITES_PER_HOST

C5_Witness ==
    \E s \in Sites : pc[s] = "catchSignal" /\ Total(signalled) >= 1

\* C6 (as stated): the latch starts at SITES_PER_HOST: as long as no site has
\* reached a replicated insert, the latch equals SITES_PER_HOST.
C6_LatchStartsAtSitesPerHost ==
    (\A s \in Sites : entered[s] = 0) => globalTxnStartCountdownLatch = SITES_PER_HOST

\* C6 (amended): the statics are initialised to latch 0 and SITES_PER_HOST -1;
\* from host startup on, as long as no site has reached a replicated insert,
\* the latch equals SITES_PER_HOST.
C6_LatchArmedByStartup ==
    /\ ~Started => globalTxnStartCountdownLatch = 0 /\ SITES_PER_HOST = -1
    /\ (Started /\ \A s \in Sites : entered[s] = 0) =>
          globalTxnStartCountdownLatch = SITES_PER_HOST

C6_Witness ==
    /\ Started
    /\ \A s \in Sites : entered[s] = 0
    /\ \E s \in Sites : Len(executed[s]) >= 1

\* C7 (as stated): when executeExecutors has returned or thrown, the context
\* bound to the site's thread is the site's own context and not
\* mpEngineLocals.context.
C7_OwnContextAndNotMpContext ==
    \A s \in Sites :
        (pc[s] = "idle" /\ returned[s] # <<"none">>) =>
            /\ threadContext[s] = ourEngineLocals(s).context
            /\ threadContext[s] # mpEngineLocals.context

\* C7 (amended): the driver's binding to mpEngineLocals is transient: when it
\* calls signalLastSiteFinished, on the success path and in the catch block, and
\* when executeExecutors has returned or thrown, the thread is bound to the
\* site's own context; that context differs from mpEngineLocals.context for
\* every site but the one whose own context is mpEngineLocals.context.
C7_RebindIsTransient ==
    \A s \in Sites :
        /\ (pc[s] \in SignalPcs \cup {"cleanup", "cleanPools", "foreach", "countdown", "wait", "waiting"}
             \/ (pc[s] = "idle" /\ Started)) =>
                /\ threadContext[s] = ourEngineLocals(s).context
                /\ threadContext[s] = s
                /\ (s # mpEngineLocals.context => threadContext[s] # mpEngineLocals.context)
        /\ pc[s] \in {"execute", "executing"} => threadContext[s] = mpEngineLocals.context

C7_Witness ==
    \E s \in Sites :
        /\ s # mpEngineLocals.context
        /\ pc[s] = "catchSignal"
        /\ threadContext[s] = s

\* C8: a waiter never invokes execute() on the replicated INSERT executor;
\* when waitForLastSiteFinished returns it goes on to the next executor of its
\* own list, and a call in which nothing of its own list failed returns the
\* output table of its own last executor, also when the driver's execute()
\* failed.
C8_WaiterState ==
    \A s \in Sites :
        /\ execStarted[s] <= drove[s]
        /\ (drove[s] = 0 => ReplExecuted(s) = <<>>)
        /\ (pc[s] \in {"wait", "waiting"} =>
               \A k \in 1..Len(executed[s]) :
                   ~(executed[s][k][1] = s /\ executed[s][k][2] = pos[s]))
        /\ (returned[s][1] = "table" => returned[s] = <<"table", s, ttl>>)

C8_WaiterStep ==
    \A s \in Sites :
        (pc[s] = "waiting" /\ pc'[s] # "waiting") =>
            /\ pc'[s] = "foreach"
            /\ pos'[s] = pos[s] + 1
            /\ executed'[s] = executed[s]
            /\ ctr'[s] = ctr[s]

C8_WaiterSkipsReplicatedInsert == [](C8_WaiterState) /\ [][C8_WaiterStep]_vars

C8_Witness ==
    /\ AllReplicated
    /\ \E w \in Sites : \E d \in Sites :
         /\ drove[w] = 0
         /\ passed[w] = ttl
         /\ returned[w] = <<"table", w, ttl>>
         /\ drove[d] >= 1
         /\ returned[d] = <<"exception">>

\* C9: when no executor fails and the list holds no replicated insert,
\* executeExecutors invokes execute() on every executor of the list exactly
\* once, in list order, each with the context's parameter array, and returns
\* the output table of the last executor of the list.
C9_RunsListInOrder ==
    \A s \in Sites :
        (NoneReplicated /\ returned[s][1] = "table") =>
            /\ executed[s] = [i \in 1..ttl |-> <<s, i, s>>]
            /\ returned[s] = <<"table", s, ttl>>
            /\ ctr[s] = ttl

C9_Witness ==
    /\ NoneReplicated
    /\ ttl >= 2
    /\ \E s \in Sites : returned[s] = <<"table", s, ttl>>

\* C10: when an executor of the list fails, every executor of the list has
\* its temp output table released and every inline child of every node of the
\* list has its memory pool cleaned by the time the exception reaches the
\* caller.
C10_CleanupOnFailure ==
    \A s \in Sites :
        (pc[s] = "idle" /\ returned[s] = <<"exception">>) =>
            \A i \in 1..ttl : ~outputTempTable[s][i] /\ ~inlinePool[s][i]

C10_Witness ==
    \E s \in Sites :
        /\ pc[s] = "idle"
        /\ returned[s] = <<"exception">>
        /\ Len(executed[s]) >= 2

\* Where a site stands inside the catch block of executeExecutors, in the order
\* of its statements; the first four belong to the driver-lock release.
CatchOrder ==
    <<"catchReset", "catchRebind", "catchSignal", "catchSignalSpin", "cleanup",
      "cleanPools">>

CatchPcs == {CatchOrder[i] : i \in 1..Len(CatchOrder)}
ReleasePcs == {CatchOrder[i] : i \in 1..4}

CatchIndex(p) == CHOOSE i \in 1..Len(CatchOrder) : CatchOrder[i] = p

\* The failing execute() is the last one the call made: ctr executors succeeded
\* before it, the caller has nothing yet, the release runs only for a failed
\* driver and is over when cleanupAllExecutors starts, and the temp tables are
\* released when the pool cleanup starts.
C11_RecoveryState ==
    \A s \in Sites :
        /\ pc[s] \in CatchPcs =>
              /\ returned[s] = <<"none">>
              /\ Len(executed[s]) = ctr[s] + 1
              /\ pos[s] <= ttl
        /\ pc[s] \in ReleasePcs =>
              /\ needsReleaseLock[s]
              /\ executed[s][Len(executed[s])][1] = mpEngineLocals.context
              /\ executorList[executed[s][Len(executed[s])][2]] = "REPL_INSERT"
              /\ executorList[pos[s]] = "REPL_INSERT"
              /\ passed[s] < entered[s]
        /\ pc[s] \in {"cleanup", "cleanPools"} =>
              /\ signalled[s] = drove[s]
              /\ passed[s] = entered[s]
              /\ needsReleaseLock[s] <=> executorList[pos[s]] = "REPL_INSERT"
              /\ ~needsReleaseLock[s] => executed[s][Len(executed[s])] = <<s, pos[s], s>>
        /\ pc[s] = "cleanPools" => \A i \in 1..ttl : ~outputTempTable[s][i]
        /\ (pc[s] = "idle" /\ returned[s] = <<"exception">>) =>
              /\ Len(executed[s]) = ctr[s] + 1
              /\ \A i \in 1..ttl : ~inlinePool[s][i]

\* Inside the catch block nothing is executed, the steps follow one another
\* in the order of CatchOrder, a failure outside the driver's branch starts at
\* cleanupAllExecutors, and the block is left by the rethrow alone.
C11_RecoveryStep ==
    \A s \in Sites :
        /\ pc[s] \in CatchPcs =>
              /\ executed'[s] = executed[s]
              /\ ctr'[s] = ctr[s]
              /\ pos'[s] = pos[s]
        /\ (pc[s] \in CatchPcs /\ pc'[s] # pc[s]) =>
              IF pc[s] = "cleanPools"
                THEN pc'[s] = "idle" /\ returned'[s] = <<"exception">>
                ELSE pc'[s] = CatchOrder[CatchIndex(pc[s]) + 1]
        /\ (pc[s] \notin CatchPcs /\ pc'[s] \in CatchPcs) =>
              /\ Len(executed'[s]) = Len(executed[s]) + 1
              /\ pc'[s] = IF pc[s] = "executing" THEN "catchReset" ELSE "cleanup"
        /\ returned'[s] = <<"exception">> => pc[s] \in {"cleanPools", "idle"}

\* C11: when the executor at position k fails, no executor after it is
\* executed; the recovery runs the driver-lock release (only when the failing
\* executor was run by the driver of a replicated insert), then
\* cleanupAllExecutors, then the inline children's pool cleanup, then the
\* rethrow; the caller receives the exception and no table.
C11_RecoveryOrder == [](C11_RecoveryState) /\ [][C11_RecoveryStep]_vars

C11_Witness ==
    \E s \in Sites :
        /\ pc[s] = "idle"
        /\ returned[s] = <<"exception">>
        /\ needsReleaseLock[s]
        /\ signalled[s] = 1
        /\ pos[s] < ttl

\* The stream the rotation under way (or the last one) works on: m_drStream for
\* setDrStream, m_drReplicatedStream for setDrReplicatedStream.
DrInstalled ==
    IF drPc \in {"sdrsFlushed", "sdrsInstalled"} THEN m_drReplicatedStream ELSE m_drStream

\* C12: when setDrStream(new) or setDrReplicatedStream(new) returns, the stream
\* installed in the context is new, and its committedSequenceNumber is the one
\* the old stream had when the rotation began.
C12_Step ==
    (drPc \in {"sdsInstalled", "sdrsInstalled"} /\ drPc' = "idle") =>
        /\ (drPc = "sdsInstalled" => m_drStream' = drArg)
        /\ (drPc = "sdrsInstalled" => m_drReplicatedStream' = drArg)
        /\ drArg # drBefore.old
        /\ drStreams'[drArg].committedSequenceNumber = drBefore.seq

C12_NewStreamTakesOldSequenceNumber == [][C12_Step]_vars

C12_Witness ==
    /\ drPc = "idle"
    /\ Len(drRotations) >= 1
    /\ m_drStream = drArg
    /\ drBefore.newSeq < drBefore.seq
    /\ drStreams[m_drStream].committedSequenceNumber = drBefore.seq

\* C13: over the setDrStream rotations whose precondition held, the
\* committedSequenceNumber of the installed drStream does not decrease from one
\* rotation to the next, nor between a rotation and the next call.
C13_SequenceNumberNeverDecreases ==
    /\ \A i \in 1..(Len(drRotations) - 1) :
         (drRotations[i].prec /\ drRotations[i + 1].prec) =>
             drRotations[i].seq <= drRotations[i + 1].seq
    /\ (drPc = "idle" /\ drRotations # <<>> /\ drRotations[Len(drRotations)].prec) =>
          drStreams[m_drStream].committedSequenceNumber >= drRotations[Len(drRotations)].seq

C13_Witness ==
    /\ Len(drRotations) = 2
    /\ drRotations[1].prec /\ drRotations[2].prec
    /\ drRotations[1].seq < drRotations[2].seq
    /\ m_drStream = drArg
    /\ drBefore.newSeq < drRotations[2].seq

\* The upper bound the old stream of the rotation under way is flushed with.
DrFlushBound == Max(m_lastCommittedSpHandle, drStreams[drArg].openSpHandle)

C14_State ==
    /\ drPc \in {"sdsFlushed", "sdrsFlushed"} =>
          /\ DrInstalled = drBefore.old
          /\ drArg # drBefore.old
          /\ drStreams[drBefore.old].flushedTo = DrFlushBound
          /\ drStreams[drArg].committedSequenceNumber = drBefore.newSeq
          /\ drStreams[drArg].flushedTo = -1
    /\ drPc \in {"sdsInstalled", "sdrsInstalled"} =>
          /\ DrInstalled = drArg
          /\ drStreams[drBefore.old].flushedTo = DrFlushBound
          /\ drStreams[drArg].committedSequenceNumber = drBefore.newSeq
          /\ oldSeqNum = drStreams[drBefore.old].committedSequenceNumber
    /\ drPc = "idle" =>
          \A st \in {m_drStream, m_drReplicatedStream} \ {NULL} : drStreams[st].flushedTo = -1

C14_Step ==
    /\ m_drStream' # m_drStream => drPc = "sdsFlushed" /\ drPc' = "sdsInstalled"
    /\ m_drReplicatedStream' # m_drReplicatedStream =>
          drPc = "sdrsFlushed" /\ drPc' = "sdrsInstalled"
    /\ (drPc \notin {"idle", "aborted"} /\ drPc' # "aborted"
          /\ drStreams'[drArg].committedSequenceNumber # drStreams[drArg].committedSequenceNumber) =>
          /\ drPc \in {"sdsInstalled", "sdrsInstalled"}
          /\ drStreams'[drBefore.old] = drStreams[drBefore.old]

\* C14: in setDrStream and setDrReplicatedStream the old stream is flushed with
\* upper bound max(m_lastCommittedSpHandle, new.openSpHandle) before the new
\* stream is installed, and the sequence number is copied onto the new stream
\* only after the flush and the installation.
C14_FlushThenInstallThenCopy == [](C14_State) /\ [][C14_Step]_vars

C14_Witness ==
    /\ drPc = "sdsInstalled"
    /\ drStreams[drArg].openSpHandle > m_lastCommittedSpHandle
    /\ drStreams[drBefore.old].flushedTo = drStreams[drArg].openSpHandle
    /\ drBefore.seq > drBefore.newSeq

\* C15: cleanupAllExecutors is idempotent: a call made after another one, with
\* no execution in between, leaves the temp output tables of all executors of
\* all subqueries and the subquery context map as the first call left them,
\* which is empty.
C15_Step ==
    (clCalls >= 1 /\ clCalls' = clCalls + 1) =>
        /\ m_executorsMap' = m_executorsMap
        /\ m_subqueryContextMap' = m_subqueryContextMap

C15_State ==
    clCalls >= 1 => allOutputTempTablesAreEmpty /\ m_subqueryContextMap = {}

C15_CleanupIdempotent == [](C15_State) /\ [][C15_Step]_vars

C15_Witness ==
    /\ clCalls = 2
    /\ clDirtyBefore
    /\ \E id \in SubqueryIds : Len(m_executorsMap[id]) >= 2

\* C16: exactly one ExecutorContext is bound to a thread at any time: whenever
\* a context constructed on a thread is alive, getExecutorContext() on that
\* thread returns a live context.
C16_ExactlyOneLiveContextBound ==
    \A t \in Sites :
        (\E c \in Contexts : liveContexts[c] = t) =>
            /\ getExecutorContext(t) # NULL
            /\ liveContexts[getExecutorContext(t)] # NULL

\* C17: in every state of a run of p_execute the middle edge has consumed at
\* most as many rows as the leading edge, and both edges iterate over the same
\* table, the input table.
C17_MiddleNeverPassesLeading ==
    /\ window.m_middleEdge.location <= window.m_leadingEdge.location
    /\ window.m_middleEdge.table = window.m_leadingEdge.table
    /\ wfPc # "init" => window.m_leadingEdge.table = "input"

C17_Witness ==
    /\ wfPc = "emit"
    /\ 0 < window.m_middleEdge.location
    /\ window.m_middleEdge.location < window.m_leadingEdge.location
    /\ window.m_leadingEdge.location < Len(wfInput)

\* The group sizes of the findNextEdge calls made so far, summed.
GroupSizeSum == SumUpTo(groupSizes, Len(groupSizes))

\* C18: the group sizes of the findNextEdge calls of one p_execute sum to the
\* number of input rows: after each call every row the leading edge has read is
\* counted in a group, except the row read when this call detected its edge,
\* which the next call counts; at the end every input row is counted.
C18_GroupSizesSumToInputRows ==
    /\ wfPc \in {"lookaheadNextGroup", "emit"} =>
          GroupSizeSum = window.m_leadingEdge.location
                           - (IF nextEtype = "EndOfInput" THEN 0 ELSE 1)
    /\ wfPc = "done" => GroupSizeSum = Len(wfInput)

C18_Witness ==
    /\ wfPc = "done"
    /\ Len(wfInput) = MaxInput
    /\ Len(groupSizes) >= 3
    /\ \E g \in DOMAIN groupSizes : groupSizes[g] >= 2

\* The partition-by and order-by keys of the input row at position i.
PartitionKeyAt(i) == EvalKey(m_partitionByExpressions, wfInput[i])
OrderKeyAt(i) == EvalKey(m_orderByExpressions, wfInput[i])

\* Key a is strictly smaller than key b, column by column from the first.
KeyLess(a, b) ==
    \E k \in 1..Len(a) :
        /\ a[k] < b[k]
        /\ \A j \in 1..(k - 1) : a[j] = b[j]

\* The input is sorted by (partition-by key, order-by key).
InputIsSorted ==
    \A i, j \in 1..Len(wfInput) :
        i < j => ~KeyLess(PartitionKeyAt(j) \o OrderKeyAt(j),
                          PartitionKeyAt(i) \o OrderKeyAt(i))

\* The position of an aggregate type in m_aggTypes.
AggIndex(aggType) == CHOOSE ii \in DOMAIN m_aggTypes : m_aggTypes[ii] = aggType

\* The rows before position i, in the partition of row i, with a strictly
\* smaller order-by key.
SmallerPeersBefore(i) ==
    {j \in 1..(i - 1) : /\ PartitionKeyAt(j) = PartitionKeyAt(i)
                        /\ KeyLess(OrderKeyAt(j), OrderKeyAt(i))}

\* C19: for input sorted by (partition-by key, order-by key), the RANK value
\* emitted for the row at position i is 1 + the number of rows before i in the
\* same partition whose order-by key is strictly smaller.
C19_RankCountsSmallerRows ==
    InputIsSorted =>
        \A i \in DOMAIN wfOutput :
            i <= Len(wfInput) =>
                wfOutput[i].aggregates[AggIndex("RANK")]
                    = 1 + Cardinality(SmallerPeersBefore(i))

C19_Witness ==
    /\ wfPc = "done"
    /\ wfInput = <<(<<1, 1>>), (<<1, 1>>), (<<1, 2>>), (<<2, 1>>)>>
    /\ m_partitionByExpressions = <<1>>
    /\ m_orderByExpressions = <<2>>
    /\ [i \in DOMAIN wfOutput |-> wfOutput[i].aggregates[AggIndex("RANK")]]
          = <<1, 1, 3, 1>>

\* C20: for input sorted by (partition-by key, order-by key), the DENSE_RANK
\* value emitted for the row at position i is 1 + the number of distinct
\* order-by keys of the same partition that are smaller than the row's own key.
C20_DenseRankCountsSmallerKeys ==
    InputIsSorted =>
        \A i \in DOMAIN wfOutput :
            i <= Len(wfInput) =>
                wfOutput[i].aggregates[AggIndex("DENSE_RANK")]
                    = 1 + Cardinality({OrderKeyAt(j) : j \in SmallerPeersBefore(i)})

C20_Witness ==
    /\ wfPc = "done"
    /\ wfInput = <<(<<1, 1>>), (<<1, 1>>), (<<1, 2>>), (<<2, 1>>)>>
    /\ m_partitionByExpressions = <<1>>
    /\ m_orderByExpressions = <<2>>
    /\ [i \in DOMAIN wfOutput |-> wfOutput[i].aggregates[AggIndex("DENSE_RANK")]]
          = <<1, 1, 2, 1>>

\* The positions in m_aggTypes of COUNT(*), which has no argument expressions,
\* and of COUNT(E), and the input column E stands for.
CountStarIndex ==
    CHOOSE ii \in DOMAIN m_aggTypes :
        m_aggTypes[ii] = "COUNT" /\ m_aggregateInputExpressions[ii] = <<>>
CountExprIndex ==
    CHOOSE ii \in DOMAIN m_aggTypes :
        m_aggTypes[ii] = "COUNT" /\ m_aggregateInputExpressions[ii] # <<>>
CountColumn == m_aggregateInputExpressions[CountExprIndex][1]

\* The values the i-th output row carries for COUNT(*) and for COUNT(E).
CountStarAt(i) == wfOutput[i].aggregates[CountStarIndex]
CountExprAt(i) == wfOutput[i].aggregates[CountExprIndex]

\* The input rows of the partition of row i, and those of them COUNT(E) counts.
PartitionOf(i) == {j \in 1..Len(wfInput) : PartitionKeyAt(j) = PartitionKeyAt(i)}
NonNullIn(rows) == {j \in rows : wfInput[j][CountColumn] # NullNValue}

\* C21: in a window with PARTITION BY and no ORDER BY, on input sorted by the
\* partition-by key, the COUNT(*) value emitted for every row is the number of
\* rows of the row's partition and the COUNT(E) value is the number of rows of
\* that partition in which E is not null.
C21_CountOverPartition ==
    (m_partitionByExpressions # <<>> /\ m_orderByExpressions = <<>> /\ InputIsSorted) =>
        \A i \in DOMAIN wfOutput :
            i <= Len(wfInput) =>
                /\ CountStarAt(i) = Cardinality(PartitionOf(i))
                /\ CountExprAt(i) = Cardinality(NonNullIn(PartitionOf(i)))

C21_Witness ==
    /\ wfPc = "done"
    /\ wfInput = <<(<<1, NullNValue>>), (<<1, 2>>), (<<1, 2>>)>>
    /\ m_partitionByExpressions = <<1>>
    /\ m_orderByExpressions = <<>>
    /\ [i \in DOMAIN wfOutput |-> CountExprAt(i)] = <<2, 2, 2>>
    /\ [i \in DOMAIN wfOutput |-> CountStarAt(i)] = <<3, 3, 3>>

\* The last row of the order-by peer group of row i: the rows of its partition
\* with its order-by key.
PeerGroupEnd(i) ==
    CHOOSE j \in PartitionOf(i) :
        /\ OrderKeyAt(j) = OrderKeyAt(i)
        /\ \A k \in PartitionOf(i) : OrderKeyAt(k) = OrderKeyAt(i) => k <= j

\* The rows of the partition of row i from its first row up to and including
\* the last row of the peer group of row i.
ThroughPeerGroup(i) == {j \in PartitionOf(i) : j <= PeerGroupEnd(i)}

\* C27: in a window with PARTITION BY and ORDER BY, on sorted input, the COUNT
\* value emitted for a row is the number of counted rows of its partition from
\* the partition's first row through the last row of the row's peer group (all
\* of them for COUNT(*), those with non-null E for COUNT(E)), in every state in
\* which the row has been emitted, so from the group's first row on.
C27_CountThroughPeerGroup ==
    (m_partitionByExpressions # <<>> /\ m_orderByExpressions # <<>> /\ InputIsSorted) =>
        \A i \in DOMAIN wfOutput :
            i <= Len(wfInput) =>
                /\ CountStarAt(i) = Cardinality(ThroughPeerGroup(i))
                /\ CountExprAt(i) = Cardinality(NonNullIn(ThroughPeerGroup(i)))

C27_Witness ==
    /\ wfPc = "emit"
    /\ idx = 1
    /\ wfInput = <<(<<1, NullNValue>>), (<<1, 1>>), (<<1, 1>>)>>
    /\ m_partitionByExpressions = <<1>>
    /\ m_orderByExpressions = <<2>>
    /\ [i \in DOMAIN wfOutput |-> CountStarAt(i)] = <<1, 3>>
    /\ [i \in DOMAIN wfOutput |-> CountExprAt(i)] = <<0, 2>>

\* C22: after p_execute has returned, normally or by an exception, the four
\* scratch key tuples and the buffered input tuple are null tuples and the
\* memory pool is purged, which is what initWorkingTupleStorage() of a
\* following p_execute requires.
C22_ScratchTuplesNullAfterReturn ==
    wfPc \in {"done", "thrown"} =>
        /\ inProgressPartitionByKey = NULL
        /\ inProgressOrderByKey = NULL
        /\ lastPartitionByKey = NULL
        /\ lastOrderByKey = NULL
        /\ bufferedInputTuple = NULL
        /\ wfStorage = <<>>
        /\ aggs = <<>>

\* C23: the executor emits one output row per input row, in input order (none
\* for an empty input), and the pass-through columns of the i-th output row
\* are those of the i-th input row, which the middle edge has read, not those
\* of the row the leading edge has buffered.
C23_OneOutputRowPerInputRow ==
    /\ Len(wfOutput) = window.m_middleEdge.location
    /\ Len(wfOutput) <= Len(wfInput)
    /\ \A i \in DOMAIN wfOutput : wfOutput[i].passThrough = wfInput[i]
    /\ wfPc = "done" => Len(wfOutput) = Len(wfInput)

C23_Witness ==
    /\ wfPc = "emit"
    /\ Len(wfOutput) >= 2
    /\ wfStorage[bufferedInputTuple] # wfOutput[Len(wfOutput)].passThrough
    /\ wfOutput[1].passThrough # wfOutput[2].passThrough

\* The data the two tables held when p_execute was entered: what holds data d.
SwHolderOf(d) == IF targetTable1.data = d THEN targetTable1 ELSE targetTable2

\* visible(target1) + visible(target2) as it was before the swap: the counts
\* travel with the data.
SwVisibleBefore == visibleTupleCount(SwHolderOf(1)) + visibleTupleCount(SwHolderOf(2))

ProjectedColumn(c, row) ==
    CASE all_tuple_array # NullArray -> row[all_tuple_array[c]]
      [] all_tuple_array = NullArray /\ all_param_array # NullArray ->
            pjParams[all_param_array[c]]
      [] OTHER -> Eval(expression_array[c], row)

\* C25: p_execute of the projection executor emits one output row per input
\* row, in input order, and column c of the i-th output row is what the path
\* in force gives for the i-th input row alone.
C25_ProjectsEachRowAlone ==
    /\ Len(pjOutput) = pjIterator
    /\ pjIterator <= Len(pjInput)
    /\ pjPc = "done" => Len(pjOutput) = Len(pjInput)
    /\ \A i \in DOMAIN pjOutput :
          pjOutput[i] = [c \in DOMAIN expression_array |-> ProjectedColumn(c, pjInput[i])]

C25_Witness ==
    /\ pjPc = "done"
    /\ pjParams = <<10, 20>>
    /\ all_param_array = <<2, 1>>
    /\ all_tuple_array = NullArray
    /\ Len(pjInput) = 2
    /\ pjInput[1] # pjInput[2]
    /\ pjOutput = <<(<<20, 10>>), (<<20, 10>>)>>

\* The resetAggs calls made so far and the rows they were made before.
IsResetCall(call) == call.op = "resetAggs"
ResetCalls == SelectSeq(wfCalls, IsResetCall)
ResetPositions == {ResetCalls[k].at : k \in DOMAIN ResetCalls}

\* The rows up to row m at which a partition starts: the first row and every
\* row whose partition-by key differs from that of the row before.
PartitionStarts(m) ==
    {i \in 1..m : i = 1 \/ PartitionKeyAt(i) # PartitionKeyAt(i - 1)}

\* C26: the aggregates are reset exactly at the start of input and before each
\* row whose partition-by key differs from that of the row before, once each
\* and never at an order-by edge; a changed partition-by key gives the edge
\* StartOfPartitionByGroup whatever the order-by key does.
C26_ResetExactlyAtPartitionStarts ==
    /\ wfPc \in {"findNextEdge", "scan"} =>
          ResetPositions = {1} \cup PartitionStarts(window.m_middleEdge.location + 1)
    /\ (wfPc \in {"loop", "done"} /\ wfCalls # <<>>) =>
          ResetPositions = {1} \cup PartitionStarts(window.m_middleEdge.location)
    /\ Len(ResetCalls) = Cardinality(ResetPositions)
    /\ (wfPc \in {"lookaheadNextGroup", "emit"} /\ nextEtype # "EndOfInput") =>
          LET row == window.m_leadingEdge.location
          IN  /\ nextEtype = "StartOfPartitionByGroup"
                    <=> PartitionKeyAt(row) # PartitionKeyAt(row - 1)
              /\ nextEtype = "StartOfOrderByGroup"
                    <=> /\ PartitionKeyAt(row) = PartitionKeyAt(row - 1)
                        /\ OrderKeyAt(row) # OrderKeyAt(row - 1)

C26_Witness ==
    /\ wfPc = "done"
    /\ wfInput = <<(<<1, 1>>), (<<1, 2>>), (<<2, 2>>)>>
    /\ m_partitionByExpressions = <<1>>
    /\ m_orderByExpressions = <<2>>
    /\ ResetPositions = {1, 3}
    /\ Len(groupSizes) = 3

\* The rows lookaheadOneRow is due for: every row findNextEdge has counted in
\* a group, the row inherited from the previous call included.
RowsCounted ==
    GroupSizeSum + (IF wfPc = "scan" THEN window.m_groupSize ELSE 0)

\* C28: lookaheadOneRow has been invoked exactly once for every row counted so
\* far on each aggregate whose m_needsLookahead is true, so once for every
\* input row when the scan is over, and never on an aggregate whose
\* m_needsLookahead is false.
C28_LookaheadOncePerRow ==
    /\ \A ii \in DOMAIN aggs :
          aggs[ii].lookaheadOneRowCalls
              = IF aggs[ii].m_needsLookahead THEN RowsCounted ELSE 0
    /\ (wfPc = "loop" /\ etype = "EndOfInput") =>
          \A ii \in DOMAIN aggs :
              /\ aggs[ii].m_needsLookahead = (m_aggTypes[ii] = "COUNT")
              /\ aggs[ii].m_needsLookahead => aggs[ii].lookaheadOneRowCalls = Len(wfInput)

C28_Witness ==
    /\ wfPc = "loop"
    /\ etype = "EndOfInput"
    /\ Len(wfInput) = MaxInput
    /\ Len(groupSizes) >= 3
    /\ aggs[CountStarIndex].lookaheadOneRowCalls = MaxInput
    /\ aggs[AggIndex("RANK")].lookaheadOneRowCalls = 0

\* The calls of the aggregate protocol other than resetAggs.
IsProtocolCall(call) == call.op # "resetAggs"
ProtocolCalls == SelectSeq(wfCalls, IsProtocolCall)

RECURSIVE ProtocolOf(_, _)
\* The calls the groups of the given sizes take, emitted being the rows
\* emitted before them: findNextEdge, lookaheadNextGroup, one finalize per row
\* of the group, endGroup.
ProtocolOf(sizes, emitted) ==
    IF sizes = <<>>
      THEN <<>>
      ELSE LET groupSize == Head(sizes)
           IN  <<[op |-> "findNextEdge", at |-> groupSize],
                 [op |-> "lookaheadNextGroup", at |-> groupSize]>>
               \o [row \in 1..groupSize |-> [op |-> "finalize", at |-> emitted + row]]
               \o <<[op |-> "endGroup", at |-> groupSize]>>
               \o ProtocolOf(Tail(sizes), emitted + groupSize)

\* C29: for every group the calls occur in the order findNextEdge (which
\* fixes m_groupSize), lookaheadNextGroup once, finalize once per emitted row
\* for exactly m_groupSize rows, endGroup once; the calls made so far are the
\* beginning of that sequence and between two groups they are all of it.
C29_ProtocolOrder ==
    LET expected == ProtocolOf(groupSizes, 0)
    IN  /\ Len(ProtocolCalls) <= Len(expected)
        /\ ProtocolCalls = SubSeq(expected, 1, Len(ProtocolCalls))
        /\ wfPc \in {"loop", "done"} => ProtocolCalls = expected

C29_Witness ==
    /\ wfPc = "done"
    /\ groupSizes = <<2, 1, 1>>
    /\ Len(ProtocolCalls) = 13

\* C30: while p_execute runs, the two tuples of each key pair refer to two
\* distinct non-null storage areas; once a row has been read the inProgress*
\* tuples hold the keys of the row read last and, from the second row on, the
\* last* tuples hold the keys of the row read before it.
C30_KeyTuplesNeverAlias ==
    wfPc \in {"loop", "findNextEdge", "scan", "lookaheadNextGroup", "emit"} =>
        /\ inProgressPartitionByKey # NULL
        /\ lastPartitionByKey # NULL
        /\ inProgressPartitionByKey # lastPartitionByKey
        /\ inProgressOrderByKey # NULL
        /\ lastOrderByKey # NULL
        /\ inProgressOrderByKey # lastOrderByKey
        /\ {inProgressPartitionByKey, lastPartitionByKey}
              \cap {inProgressOrderByKey, lastOrderByKey, bufferedInputTuple} = {}
        /\ LET row == window.m_leadingEdge.location
           IN  /\ row >= 1 =>
                     /\ wfStorage[inProgressPartitionByKey] = PartitionKeyAt(row)
                     /\ wfStorage[inProgressOrderByKey] = OrderKeyAt(row)
               /\ row >= 2 =>
                     /\ wfStorage[lastPartitionByKey] = PartitionKeyAt(row - 1)
                     /\ wfStorage[lastOrderByKey] = OrderKeyAt(row - 1)

C30_Witness ==
    /\ wfPc = "lookaheadNextGroup"
    /\ window.m_leadingEdge.location = 3
    /\ nextEtype = "StartOfPartitionByGroup"
    /\ wfStorage[inProgressPartitionByKey] # wfStorage[lastPartitionByKey]
    /\ wfStorage[inProgressOrderByKey] = wfStorage[lastOrderByKey]
    /\ inProgressPartitionByKey = 2
    /\ lastPartitionByKey = 1

\* The iterations of the main loop that have ended, the edge types findNextEdge
\* may return, and the state in which a call of findNextEdge has returned.
IsEndGroupCall(call) == call.op = "endGroup"
IterationsEnded == Len(SelectSeq(wfCalls, IsEndGroupCall))
ReturnedEdgeTypes == {"StartOfPartitionByGroup", "StartOfOrderByGroup", "EndOfInput"}
FindNextEdgeReturned == wfPc \in {"lookaheadNextGroup", "emit"}

\* The edge types of the main loop in every state of p_execute.
C31_EdgeTypes ==
    /\ wfPc \in {"loop", "findNextEdge", "scan", "lookaheadNextGroup", "emit", "done"} =>
          /\ etype = "StartOfInput" <=> IterationsEnded = 0
          /\ etype \in {"StartOfInput"} \cup ReturnedEdgeTypes
          /\ groupSizes # <<>> => nextEtype \in ReturnedEdgeTypes
    /\ FindNextEdgeReturned =>
          /\ nextEtype = "EndOfInput"
                <=> window.m_leadingEdge.location = GroupSizeSum
          /\ nextEtype = "EndOfInput"
                => window.m_leadingEdge.location = Len(wfInput)
          /\ nextEtype # "EndOfInput"
                => window.m_leadingEdge.location = GroupSizeSum + 1
    /\ wfPc = "done" =>
          /\ etype = "EndOfInput"
          /\ window.m_middleEdge.location = Len(wfInput)
          /\ ~IterHasNext(window.m_leadingEdge)

\* C31: the edge type of the main loop is StartOfInput only in the first
\* iteration; findNextEdge returns only StartOfPartitionByGroup,
\* StartOfOrderByGroup or EndOfInput, and EndOfInput exactly when the leading
\* iterator had no further row; and on every input the loop ends, after the
\* last group has been emitted (or p_execute has thrown before the loop).
C31_EdgeTypesAndTermination ==
    /\ []C31_EdgeTypes
    /\ <>(wfPc \in {"done", "thrown"})
    /\ <>(wfPc = "done" \/ \E ii \in DOMAIN m_aggTypes : m_aggTypes[ii] \notin KnownAggTypes)

C31_Witness ==
    /\ wfPc = "done"
    /\ etype = "EndOfInput"
    /\ wfInput = <<(<<1, 1>>), (<<1, 2>>), (<<2, 2>>), (<<2, 2>>)>>
    /\ m_partitionByExpressions = <<1>>
    /\ m_orderByExpressions = <<2>>
    /\ groupSizes = <<1, 1, 2>>
    /\ IterationsEnded = 3
    /\ Len(wfOutput) = 4

\* The plan holds an aggregate type getWindowedAggInstance has no case for.
HasUnknownAggregate == \E ii \in DOMAIN m_aggTypes : m_aggTypes[ii] \notin KnownAggTypes

\* C33: with an aggregate type other than windowed RANK, DENSE_RANK or COUNT
\* p_execute throws (wfPc = "thrown": the SerializableEEException "Unknown
\* aggregate type" of getWindowedAggInstance, the only throw of the executor)
\* before the leading or the middle edge has read a row and before an output
\* row is inserted; it never enters the main loop, and it throws for no other
\* plan.
C33_UnknownAggregateThrowsBeforeAnyRow ==
    /\ HasUnknownAggregate => wfPc \in {"init", "thrown"}
    /\ wfPc = "thrown" =>
          /\ HasUnknownAggregate
          /\ window.m_leadingEdge.location = 0
          /\ window.m_middleEdge.location = 0
          /\ wfOutput = <<>>
          /\ groupSizes = <<>>
          /\ wfCalls = <<>>
          /\ etype = "InvalidEdgeType"

C33_Witness ==
    /\ wfPc = "thrown"
    /\ m_aggTypes = <<"RANK", "MIN">>
    /\ Len(wfInput) = MaxInput
    /\ wfOutput = <<>>
    /\ window.m_leadingEdge.location = 0

\* The site whose context is mpEngineLocals.context.
MpSite == mpEngineLocals.context

\* C32: whenever the driver is about to call, or is inside, execute() on
\* mpExecutor, mpExecutor is not NULL and is the executor the site whose
\* context is mpEngineLocals.context published in this round: the replicated
\* INSERT that site stands at, having published before its own decrement of
\* the latch, which is not later than the decrement that yielded zero.
C32_DriverReadsPublishedExecutor ==
    /\ \A s \in Sites :
          pc[s] \in {"execute", "executing"} =>
              /\ mpExecutor # NULL
              /\ mpExecutor = pos[MpSite]
              /\ executorList[mpExecutor] = "REPL_INSERT"
              /\ pc[MpSite] \in {"wait", "waiting", "execute", "executing"}
              /\ entered[MpSite] = Rounds
              /\ passed[MpSite] = Rounds - 1
    /\ \A s \in Sites :
          (s = MpSite /\ pc[s] = "countdown") => mpExecutor = pos[s]

C32_Witness ==
    \E d \in Sites :
        /\ pc[d] = "executing"
        /\ d # MpSite
        /\ Rounds = 2
        /\ mpExecutor = 2
        /\ pc[MpSite] = "waiting"

\* Site s stands at an executor that is not an INSERT into a replicated
\* persistent table, or in the catch block after such an executor failed.
AtOtherExecutor(s) ==
    pc[s] = "foreach" /\ pos[s] <= ttl /\ executorList[pos[s]] = "OTHER"
InOtherFailure(s) ==
    pc[s] \in {"cleanup", "cleanPools"} /\ executorList[pos[s]] = "OTHER"

\* A site at such an executor can always take its step, whatever the other
\* sites do, and its failure never enters the driver-lock release.
C34_NeverBlocked ==
    \A s \in Sites :
        /\ AtOtherExecutor(s) => ENABLED ExecuteOther(s)
        /\ pc[s] \in ReleasePcs => executorList[pos[s]] = "REPL_INSERT"

\* The steps of a site at such an executor, the failing ones and the catch
\* block after them included, leave the latch, mpExecutor, every thread's
\* binding, the condition and the end latch as they are.
C34_Frame ==
    \A s \in Sites :
        ((AtOtherExecutor(s) \/ InOtherFailure(s)) /\ <<pc[s], pos[s]>>' # <<pc[s], pos[s]>>) =>
            /\ UNCHANGED shared
            /\ UNCHANGED threadContext
            /\ UNCHANGED <<entered, passed, drove, signalled, execStarted, execFinished>>
            /\ UNCHANGED needsReleaseLock
            /\ pc'[s] \in {"foreach", "cleanup", "cleanPools", "idle"}
            /\ \A t \in Sites \ {s} : pc'[t] = pc[t]

\* C34: a site executing an executor that is not an INSERT into a replicated
\* persistent table never decrements or resets globalTxnStartCountdownLatch,
\* never writes mpExecutor, never rebinds thread locals and never waits or
\* signals, also when the executor fails: the cross-site coordination state is
\* unchanged and the site cannot block on another site.
C34_OtherExecutorsLeaveCoordinationAlone == [](C34_NeverBlocked) /\ [][C34_Frame]_vars

C34_Witness ==
    \E s \in Sites : \E t \in Sites :
        /\ InOtherFailure(s)
        /\ pc[s] = "cleanPools"
        /\ ~needsReleaseLock[s]
        /\ pc[t] = "waiting"
        /\ t \in sharedEngineCondition
        /\ globalTxnStartCountdownLatch = NumSites - 1

\* C35: after a replicated-insert round has completed, the driver's execute()
\* having succeeded or failed, mpExecutor is NULL: it is NULL whenever no site
\* stands between its publication and the end of the round.
C35_MpExecutorNullAfterRound ==
    (\A s \in Sites : pc[s] \in {"idle", "foreach", "cleanup", "cleanPools"}) =>
        mpExecutor = NULL

\* Where needsReleaseLock is set and how the driver's calls and signals count.
C36_ReleaseLockState ==
    \A s \in Sites :
        /\ pc[s] \in {"foreach", "countdown", "wait", "waiting", "resetLatch", "rebind",
                      "signal", "signalSpin"} => ~needsReleaseLock[s]
        /\ pc[s] \in {"execute", "executing", "clearMp"} \cup ReleasePcs => needsReleaseLock[s]
        /\ (pc[s] \in {"cleanup", "cleanPools"} /\ executorList[pos[s]] = "OTHER")
              => ~needsReleaseLock[s]
        /\ signalled[s] <= drove[s]
        /\ drove[s] <= signalled[s] + 1
        /\ pc[s] \in {"idle", "foreach", "countdown", "wait", "waiting", "cleanup", "cleanPools"}
              => signalled[s] = drove[s]

\* The latch is raised by the driver alone, from zero and before its one
\* signal of the round; a signal is the one the round was waiting for; and a
\* failure in the main loop outside the driver's branch goes to the cleanup
\* with the latch and the signals as they were.
C36_ReleaseStep ==
    /\ (Started /\ globalTxnStartCountdownLatch' > globalTxnStartCountdownLatch) =>
          \E s \in Sites :
              /\ pc[s] \in {"resetLatch", "catchReset"}
              /\ pc'[s] \in {"rebind", "catchRebind"}
              /\ drove[s] = signalled[s] + 1
              /\ globalTxnStartCountdownLatch = 0
              /\ globalTxnStartCountdownLatch' = SITES_PER_HOST
    /\ \A s \in Sites :
          /\ signalled'[s] # signalled[s] =>
                /\ signalled'[s] = drove[s]
                /\ pc[s] \in {"signal", "catchSignal"}
                /\ globalTxnStartCountdownLatch = SITES_PER_HOST
          /\ (pc[s] \in {"rebind", "catchRebind"} /\ pc'[s] # pc[s]) =>
                pc'[s] \in {"signal", "catchSignal"}
          /\ (pc[s] = "foreach" /\ pc'[s] \in CatchPcs) =>
                /\ pc'[s] = "cleanup"
                /\ UNCHANGED <<globalTxnStartCountdownLatch, signalled>>

\* C36: for each replicated-insert round the driver resets the latch and
\* calls signalLastSiteFinished exactly once: needsReleaseLock is set only from
\* the rebinding to mpEngineLocals to the end of the driver's execute() (and
\* through the catch block that execute()'s failure enters), so the failure
\* of a later, non-replicated executor of the driver's list neither resets the
\* latch nor signals again.
C36_ReleaseExactlyOncePerRound == [](C36_ReleaseLockState) /\ [][C36_ReleaseStep]_vars

C36_Witness ==
    \E d \in Sites :
        /\ executorList = <<"REPL_INSERT", "OTHER">>
        /\ drove[d] = 1
        /\ signalled[d] = 1
        /\ pc[d] = "idle"
        /\ returned[d] = <<"exception">>
        /\ ~needsReleaseLock[d]
        /\ replicatedRows = 1
        /\ globalTxnStartCountdownLatch = SITES_PER_HOST

\* C37: for every executor list accepted by executeExecutors(list, subqueryId)
\* the index ttl-1 used to fetch the returned output table is an index of the
\* list (0 .. size-1): no call crashes on the read or hands its caller
\* something that is not the output table of an executor of the list.
C37_ReturnIndexInsideList ==
    \A s \in Sites :
        /\ pc[s] # "crashed"
        /\ returned[s][1] \in {"none", "exception", "table"}
        /\ returned[s][1] = "table" => returned[s][3] \in 1..ttl
====
